---- MODULE Spec2Model ----
(***************************************************************************)
(* Model of the Session Broker of breadchris/flow:                         *)
(*   - claude.Service  (src/claude/claude.go): Agent child processes, the  *)
(*     line-JSON framing goroutines, the registry keyed by session id;     *)
(*   - slackbot.SlackBot (src/unnamed/part_003, part_005,                  *)
(*     src/slackbot/handlers.go, session_activity_test.go:543-885): the    *)
(*     thread index, the reaper and the channel whitelist.                 *)
(* Three specifications share the variables:                               *)
(*   Spec        the Session Service with the Dispatcher's simple workflow *)
(*   SpecBinder  the thread index under Put/Remove/Touch/reaper/Stop       *)
(*   SpecGate    the channel whitelist                                     *)
(***************************************************************************)
EXTENDS Integers, Sequences, FiniteSets, TLC

\* ------------------------------------------------------------------ bounds
\* Number of concurrent StopSession callers.
NumStoppers == 2
\* Capacity of inputChan / outputChan / errorChan (10 in the source, scaled).
ChanCap == 2

\* The Agent process slots of a run: one CreateSession call each.
Procs == {1}
Stoppers == 1..NumStoppers
NoProc == 0

\* Debug mode of claude.Config: the per-process debug log files exist.
Debug == TRUE

\* The session id the Agent child of process p assigns in its init envelope,
\* and a second, different id the same child may put in a later init.
FreshId(p) == <<"sid", p>>
OtherId(p) == <<"alt", p>>
EmptyId == <<"", 0>>
SessionIds == {EmptyId} \cup {FreshId(p) : p \in Procs} \cup {OtherId(p) : p \in Procs}

VARIABLES
  sessions,     \* Service.sessions: session id -> process (NoProc: no entry)
  procs,        \* the Process structs and the OS resources they own
  pc,           \* position of CreateSession and of the three goroutines
  child,        \* the Agent child: running flag, its script, lines written so far
  stops,        \* the StopSession calls in progress
  received,     \* what the reader of ReceiveMessages(p) has received
  sendLog,      \* outcome of the last SendMessage
  panics,       \* run-time panics raised so far
  botSessions,  \* SlackBot.sessions: thread_ts -> binding
  bot,          \* SlackBot.ctx cancelled (Stop called), the reaper goroutine
  flows,        \* the Dispatcher's per-thread workflow tasks
  now,          \* wall clock of the thread index
  lastOp,       \* the last operation on the thread index
  whitelist,    \* config.ChannelWhitelist and SlackBot.whitelistRegexes
  gate,         \* the last isChannelAllowed call
  event,        \* the event loop of Start and the event it handled last
  tasks,        \* the goroutines the event handlers started, in start order
  chat,         \* what has been posted to the chat sink
  store         \* the durable session store and the UpdateActivity call on it

svcVars == <<sessions, procs, pc, child, stops, received, sendLog, panics>>
botVars == <<botSessions, bot, flows, now, lastOp>>
gateVars == <<whitelist, gate>>
dispVars == <<event, tasks, chat, store>>
vars == <<sessions, procs, pc, child, stops, received, sendLog, panics,
          botSessions, bot, flows, now, lastOp, whitelist, gate,
          event, tasks, chat, store>>

\* ---------------------------------------------------------------- channels
\* A Go channel: its buffer and whether it is closed; closers records who
\* called close() on it, one element per call.
NewChan == [buf |-> <<>>, closed |-> FALSE, closers |-> <<>>]

ChanClose(ch, who) == [ch EXCEPT !.closed = TRUE, !.closers = Append(@, who)]

ChanPut(ch, v) == [ch EXCEPT !.buf = Append(@, v)]

\* A receive that takes the newest value.
ChanTakeLast(ch) == [ch EXCEPT !.buf = SubSeq(@, 1, Len(@) - 1)]

ChanTake(ch) == [ch EXCEPT !.buf = Tail(@)]

\* A send case of a select is ready when the buffer has room; on a closed
\* channel it is ready too, and taking it panics.
SendReady(ch) == ch.closed \/ Len(ch.buf) < ChanCap

\* A receive case is ready when a value is buffered or the channel is closed.
RecvReady(ch) == Len(ch.buf) > 0 \/ ch.closed


\* -------------------------------------------------------------- Go maps
MapSet(m, k, v) == [x \in DOMAIN m \cup {k} |-> IF x = k THEN v ELSE m[x]]

MapDelete(m, k) == [x \in DOMAIN m \ {k} |-> m[x]]

EmptyMap == [x \in {} |-> 0]

\* ------------------------------------------------- lines and envelopes
\* A line of the child's stdout: blank, not JSON, or one JSON envelope.
BlankLine == [text |-> "blank", type |-> "", subtype |-> "", session_id |-> EmptyId]
BadLine == [text |-> "garbage", type |-> "", subtype |-> "", session_id |-> EmptyId]
JsonLine(type, subtype, sid) ==
  [text |-> "json", type |-> type, subtype |-> subtype, session_id |-> sid]

InitLine(sid) == JsonLine("system", "init", sid)
MsgLine == JsonLine("message", "", EmptyId)

\* What the Agent child of process p may write to its stdout, line by line;
\* it may exit after any of the lines.
Scripts(p) ==
  { <<>>,
    <<InitLine(FreshId(p)), MsgLine, BlankLine, MsgLine>>,
    <<BadLine, InitLine(FreshId(p)), InitLine(OtherId(p)), MsgLine>> }

\* What it writes to its stderr: lines, each a sequence of characters.
StderrScript == << <<"e", "r", "r", "o", "r">> >>

\* strings.TrimSpace(line) == ""
IsBlank(line) == line.text = "blank"

\* A decoder that accepts every line.
AlwaysParses(line) == TRUE

\* json.Unmarshal([]byte(line), &msg) succeeds
ParseOk(line) == line.text = "json"

\* The Message a well-formed line decodes to; seq is the position of the line
\* in the child's output.
ParseLine(line, n) ==
  [Type |-> line.type, Subtype |-> line.subtype, SessionID |-> line.session_id,
   seq |-> n]

\* The Input envelope SendMessage and CreateSession build around a text.
UserInput(text) == [Type |-> "user", Role |-> "user", Text |-> text]
InitialText == "Hello, Claude! Initializing session."
Texts == {"again"}

\* ------------------------------------------------------------ processes
\* The Process struct before CreateSession has built it.
NoProcess ==
  [exists |-> FALSE, sessionID |-> EmptyId, ctxDone |-> FALSE,
   inputChan |-> NewChan, outputChan |-> NewChan,
   initComplete |-> NewChan, errorChan |-> NewChan,
   debugFiles |-> "none", stdin |-> "none", stdout |-> "none", stderr |-> "none",
   waited |-> FALSE, isHealthy |-> TRUE]

\* process := &Process{...}: pipes open, debug files open in debug mode.
NewProcess ==
  [NoProcess EXCEPT !.exists = TRUE,
                    !.debugFiles = IF Debug THEN "open" ELSE "none",
                    !.stdin = "open", !.stdout = "open", !.stderr = "open"]

\* closeDebugFiles(): Close on each non-nil log file.
CloseDebugFiles(pr) ==
  [pr EXCEPT !.debugFiles = IF @ = "none" THEN "none" ELSE "closed"]

\* process.cancel()
Cancel(pr) == [pr EXCEPT !.ctxDone = TRUE]

Alive == panics = {}

NoMsg == [Type |-> "", Subtype |-> "", SessionID |-> EmptyId, seq |-> 0]

IdlePc == [create |-> "idle", result |-> "", stdout |-> "off", stdin |-> "off",
           stderr |-> "off", msg |-> NoMsg]
IdleChild ==
  [running |-> FALSE, script |-> <<>>, pos |-> 0, stderr |-> <<>>, errPos |-> 0]
IdleStop == [pc |-> "idle", id |-> EmptyId, proc |-> NoProc]
NoSend == [proc |-> NoProc, result |-> "", cancelled |-> FALSE]

SvcInit ==
  /\ sessions = EmptyMap
  /\ procs = [p \in Procs |-> NoProcess]
  /\ pc = [p \in Procs |-> IdlePc]
  /\ child = [p \in Procs |-> IdleChild]
  /\ stops = [t \in Stoppers |-> IdleStop]
  /\ received = [p \in Procs |-> <<>>]
  /\ sendLog = NoSend
  /\ panics = {}

\* ------------------------------------------------ CreateSession (Service)
\* CreateSessionWithMultipleDirs up to the start of the three goroutines:
\* the debug files and pipes are opened, the child is started, the Process is
\* built and monitorStderr, handleStdout and handleStdin are started.
CreateStart(p) ==
  /\ Alive
  /\ pc[p].create = "idle"
  /\ procs' = [procs EXCEPT ![p] = NewProcess]
  /\ \E script \in Scripts(p) :
       child' = [child EXCEPT ![p] = [IdleChild EXCEPT !.running = TRUE, !.stderr = StderrScript,
                                                       !.script = script]]
  /\ pc' = [pc EXCEPT ![p] = [IdlePc EXCEPT !.create = "sendInit", !.stdout = "scan",
                                            !.stdin = "run", !.stderr = "scan"]]
  /\ UNCHANGED <<sessions, stops, received, sendLog, panics>>

\* select { case process.inputChan <- initialMessage: ; case <-time.After(5s): }
\* The timer fires only when the send stayed blocked.
CreateSendInit(p) ==
  /\ Alive
  /\ pc[p].create = "sendInit"
  /\ LET ch == procs[p].inputChan IN
       IF ~SendReady(ch)
       THEN /\ procs' = [procs EXCEPT ![p] = CloseDebugFiles(Cancel(@))]
            /\ pc' = [pc EXCEPT ![p].create = "err", ![p].result = "sendTimeout"]
            /\ UNCHANGED panics
       ELSE IF ch.closed
       THEN /\ panics' = panics \cup {"send on closed inputChan"}
            /\ UNCHANGED <<procs, pc>>
       ELSE /\ procs' = [procs EXCEPT ![p].inputChan = ChanPut(@, UserInput(InitialText))]
            /\ pc' = [pc EXCEPT ![p].create = "waitInit"]
            /\ UNCHANGED panics
  /\ UNCHANGED <<sessions, child, stops, received, sendLog>>

\* The cases of the init select that are ready: a value or a close on
\* initComplete, the context's Done; the 10 s timer when neither came.
InitBranches(pr) ==
  LET ready == (IF RecvReady(pr.initComplete) THEN {"init"} ELSE {})
               \cup (IF pr.ctxDone THEN {"cancelled"} ELSE {})
  IN IF ready = {} THEN {"timeout"} ELSE ready

\* s.sessions[process.sessionID] = process, under s.mu
Register(reg, id, p) == MapSet(reg, id, p)

\* select { case <-process.initComplete: ; case <-time.After(10s): ;
\*          case <-ctx.Done(): } and, on the first case, the registration.
CreateWaitInit(p) ==
  /\ Alive
  /\ pc[p].create = "waitInit"
  /\ \E b \in InitBranches(procs[p]) :
       /\ procs' = [procs EXCEPT ![p] =
            CASE b = "init" ->
                   [@ EXCEPT !.initComplete =
                      IF Len(@.buf) > 0 THEN ChanTake(@) ELSE @]
              [] b = "timeout" -> CloseDebugFiles(Cancel(@))
              [] OTHER -> CloseDebugFiles(@)]
       /\ pc' = [pc EXCEPT ![p].create = IF b = "init" THEN "ok" ELSE "err",
                           ![p].result = b]
       /\ sessions' = IF b = "init"
                      THEN Register(sessions, procs[p].sessionID, p)
                      ELSE sessions
  /\ UNCHANGED <<child, stops, received, sendLog, panics>>

\* ----------------------------------------------------------- handleStdout
\* The init branch of handleStdout: the first system/init envelope sets the
\* session id and signals initComplete without blocking.
EveryInit(msg, pr) == msg.Type = "system" /\ msg.Subtype = "init"

IsInit(msg, pr) ==
  msg.Type = "system" /\ msg.Subtype = "init" /\ pr.sessionID = EmptyId

TakeInit(pr, msg) ==
  [pr EXCEPT !.sessionID = msg.SessionID,
             !.initComplete = IF ~@.closed /\ Len(@.buf) < 1
                              THEN ChanPut(@, TRUE) ELSE @]

\* defer close(process.initComplete); defer close(process.outputChan)
StdoutDefers(pr) ==
  [pr EXCEPT !.initComplete = ChanClose(@, "handleStdout"),
             !.outputChan = ChanClose(@, "handleStdout")]

DoubleClose(ch) == IF ch.closed THEN {"close of closed channel"} ELSE {}

\* One iteration of `for process.stdoutScanner.Scan()` on the next line the
\* child writes: blank and malformed lines are skipped, the init envelope is
\* consumed, any other envelope is taken to the send on outputChan.
StdoutScan(p) ==
  /\ Alive
  /\ pc[p].stdout = "scan"
  /\ child[p].running /\ procs[p].stdout = "open"
  /\ child[p].pos < Len(child[p].script)
  /\ LET n == child[p].pos + 1
         line == child[p].script[n]
         msg == ParseLine(line, n)
     IN /\ child' = [child EXCEPT ![p].pos = n]
        /\ IF IsBlank(line) \/ ~ParseOk(line)
           THEN UNCHANGED <<procs, pc>>
           ELSE IF IsInit(msg, procs[p])
           THEN /\ procs' = [procs EXCEPT ![p] = TakeInit(@, msg)]
                /\ UNCHANGED pc
           ELSE /\ pc' = [pc EXCEPT ![p].stdout = "send", ![p].msg = msg]
                /\ UNCHANGED procs
  /\ UNCHANGED <<sessions, stops, received, sendLog, panics>>

\* Scan() returns false: the child has exited (EOF) or the pipe was closed.
\* The function returns and its deferred closes run.
StdoutEOF(p) ==
  /\ Alive
  /\ pc[p].stdout = "scan"
  /\ ~child[p].running \/ procs[p].stdout # "open"
  /\ panics' = panics \cup DoubleClose(procs[p].initComplete)
                      \cup DoubleClose(procs[p].outputChan)
  /\ procs' = [procs EXCEPT ![p] = StdoutDefers(@)]
  /\ pc' = [pc EXCEPT ![p].stdout = "done"]
  /\ UNCHANGED <<sessions, child, stops, received, sendLog>>

\* A send that puts the envelope at the head of the queue.
PublishFront(ch, msg) == [ch EXCEPT !.buf = <<msg>> \o @]

\* process.outputChan <- msg
Publish(ch, msg) == ChanPut(ch, msg)

\* The ready cases of select { case process.outputChan <- msg: ;
\* case <-process.ctx.Done(): return }
OutBranches(pr) ==
  (IF SendReady(pr.outputChan) THEN {"send"} ELSE {})
  \cup (IF pr.ctxDone THEN {"cancelled"} ELSE {})

StdoutSend(p) ==
  /\ Alive
  /\ pc[p].stdout = "send"
  /\ \E b \in OutBranches(procs[p]) :
       LET ch == procs[p].outputChan IN
       IF b = "send" /\ ch.closed
       THEN /\ panics' = panics \cup {"send on closed outputChan"}
            /\ UNCHANGED <<procs, pc>>
       ELSE IF b = "send"
       THEN /\ procs' = [procs EXCEPT ![p].outputChan = Publish(@, pc[p].msg)]
            /\ pc' = [pc EXCEPT ![p].stdout = "scan", ![p].msg = NoMsg]
            /\ UNCHANGED panics
       ELSE /\ panics' = panics \cup DoubleClose(procs[p].initComplete)
                                \cup DoubleClose(ch)
            /\ procs' = [procs EXCEPT ![p] = StdoutDefers(@)]
            /\ pc' = [pc EXCEPT ![p].stdout = "done", ![p].msg = NoMsg]
  /\ UNCHANGED <<sessions, child, stops, received, sendLog>>

\* ------------------------------------------------------------ handleStdin
\* A select that only waits for the queue.
RecvOnly(pr) == IF RecvReady(pr.inputChan) THEN {"recv"} ELSE {}

\* The ready cases of select { case message, ok := <-process.inputChan: ;
\* case <-process.ctx.Done(): return }
InBranches(pr) ==
  (IF RecvReady(pr.inputChan) THEN {"recv"} ELSE {})
  \cup (IF pr.ctxDone THEN {"cancelled"} ELSE {})

\* fmt.Fprintln(process.stdin, string(m)) succeeds
StdinWritable(p) == procs[p].stdin = "open" /\ child[p].running

\* One iteration of handleStdin's loop: a received envelope is written to the
\* child's stdin as one line; a closed queue, a failed write or a fired
\* cancellation end the goroutine.
StdinStep(p) ==
  /\ Alive
  /\ pc[p].stdin = "run"
  /\ \E b \in InBranches(procs[p]) :
       LET ch == procs[p].inputChan IN
       IF b = "recv" /\ Len(ch.buf) > 0
       THEN /\ procs' = [procs EXCEPT ![p].inputChan = ChanTake(@)]
            /\ IF StdinWritable(p)
               THEN UNCHANGED pc
               ELSE pc' = [pc EXCEPT ![p].stdin = "done"]
       ELSE /\ pc' = [pc EXCEPT ![p].stdin = "done"]
            /\ UNCHANGED procs
  /\ UNCHANGED <<sessions, child, stops, received, sendLog, panics>>

\* ---------------------------------------------------------- monitorStderr
\* strings.TrimSpace(line)
RECURSIVE TrimLeft(_)
TrimLeft(line) ==
  IF line # <<>> /\ Head(line) = " " THEN TrimLeft(Tail(line)) ELSE line
RECURSIVE TrimRight(_)
TrimRight(line) ==
  IF line # <<>> /\ line[Len(line)] = " "
  THEN TrimRight(SubSeq(line, 1, Len(line) - 1)) ELSE line
TrimSpace(line) == TrimRight(TrimLeft(line))

\* strings.ToLower(line)
UpperCase ==
  <<"A", "B", "C", "D", "E", "F", "G", "H", "I", "J", "K", "L", "M",
    "N", "O", "P", "Q", "R", "S", "T", "U", "V", "W", "X", "Y", "Z">>
LowerCase ==
  <<"a", "b", "c", "d", "e", "f", "g", "h", "i", "j", "k", "l", "m",
    "n", "o", "p", "q", "r", "s", "t", "u", "v", "w", "x", "y", "z">>
ToLower(line) ==
  [i \in DOMAIN line |->
     IF \E k \in DOMAIN UpperCase : UpperCase[k] = line[i]
     THEN LowerCase[CHOOSE k \in DOMAIN UpperCase : UpperCase[k] = line[i]]
     ELSE line[i]]

\* strings.Contains(s, substr)
Contains(s, substr) ==
  \E i \in 0..(Len(s) - Len(substr)) : SubSeq(s, i + 1, i + Len(substr)) = substr

\* A classification that compares the line as written.
IsErrorLineExact(line) ==
  \/ Contains(line, <<"e", "r", "r", "o", "r">>)
  \/ Contains(line, <<"f", "a", "i", "l", "e", "d">>)
  \/ Contains(line, <<"t", "i", "m", "e", "o", "u", "t">>)

\* strings.Contains(strings.ToLower(line), "error" | "failed" | "timeout")
IsErrorLine(line) ==
  \/ Contains(ToLower(line), <<"e", "r", "r", "o", "r">>)
  \/ Contains(ToLower(line), <<"f", "a", "i", "l", "e", "d">>)
  \/ Contains(ToLower(line), <<"t", "i", "m", "e", "o", "u", "t">>)

ErrorMsg(pr) ==
  [Type |-> "error", Subtype |-> "process_error", SessionID |-> pr.sessionID, seq |-> 0]

\* One iteration of `for process.stderrScanner.Scan()`: an error line is
\* published on errorChan by a select with a default case.
StderrScan(p) ==
  /\ Alive
  /\ pc[p].stderr = "scan"
  /\ child[p].running /\ procs[p].stderr = "open"
  /\ child[p].errPos < Len(child[p].stderr)
  /\ LET line == TrimSpace(child[p].stderr[child[p].errPos + 1]) IN
       /\ child' = [child EXCEPT ![p].errPos = @ + 1]
       /\ LET ch == procs[p].errorChan IN
          IF line = <<>> \/ ~IsErrorLine(line)
          THEN UNCHANGED <<procs, panics>>
          ELSE IF ch.closed
          THEN /\ panics' = panics \cup {"send on closed errorChan"}
               /\ UNCHANGED procs
          ELSE /\ procs' = [procs EXCEPT
                    ![p].errorChan = IF Len(ch.buf) < ChanCap
                                     THEN ChanPut(@, ErrorMsg(procs[p])) ELSE @,
                    ![p].isHealthy = FALSE]
               /\ UNCHANGED panics
  /\ UNCHANGED <<sessions, pc, stops, received, sendLog>>

\* stderrScanner.Scan() returns false: EOF or closed pipe.
StderrEOF(p) ==
  /\ Alive
  /\ pc[p].stderr = "scan"
  /\ ~child[p].running \/ procs[p].stderr # "open"
  /\ pc' = [pc EXCEPT ![p].stderr = "done"]
  /\ UNCHANGED <<sessions, procs, child, stops, received, sendLog, panics>>

\* ------------------------------------------------------------ SendMessage
\* The cases of SendMessage's select that are ready: the send on inputChan,
\* the context's Done; the 5 s timer when the call stayed blocked. Go picks
\* one of several ready cases at random.
SendBranches(pr) ==
  LET ready == (IF SendReady(pr.inputChan) THEN {"send"} ELSE {})
               \cup (IF pr.ctxDone THEN {"cancelled"} ELSE {})
  IN IF ready = {} THEN {"timeout"} ELSE ready

\* SendMessage(process, text) by a caller that holds the process handle
\* CreateSession returned.
SendMessage(p, text) ==
  /\ Alive
  /\ pc[p].create = "ok"
  /\ \E b \in SendBranches(procs[p]) :
       LET ch == procs[p].inputChan
           log == [proc |-> p, result |-> b, cancelled |-> procs[p].ctxDone]
       IN IF b = "send" /\ ch.closed
          THEN /\ panics' = panics \cup {"send on closed inputChan"}
               /\ sendLog' = [log EXCEPT !.result = "panic"]
               /\ UNCHANGED procs
          ELSE /\ procs' = [procs EXCEPT ![p].inputChan =
                              IF b = "send" THEN ChanPut(@, UserInput(text)) ELSE @]
               /\ sendLog' = log
               /\ UNCHANGED panics
  /\ UNCHANGED <<sessions, pc, child, stops, received>>

\* -------------------------------------------------------- ReceiveMessages
\* The reader of the channel ReceiveMessages(process) returned takes the next
\* envelope.
Receive(p) ==
  /\ Alive
  /\ pc[p].create = "ok"
  /\ Len(procs[p].outputChan.buf) > 0
  /\ received' = [received EXCEPT ![p] = Append(@, Head(procs[p].outputChan.buf))]
  /\ procs' = [procs EXCEPT ![p].outputChan = ChanTake(@)]
  /\ UNCHANGED <<sessions, pc, child, stops, sendLog, panics>>

\* ------------------------------------------------------------ StopSession
\* The session ids callers of StopSession hold: those of the processes
\* CreateSession has returned.
ReturnedIds == {procs[p].sessionID : p \in {q \in Procs : pc[q].create = "ok"}}

\* A lookup that leaves the entry in the registry.
StopKeep(reg, id) == reg

\* s.mu.Lock(); process, exists := s.sessions[sessionID];
\* if exists { delete(s.sessions, sessionID) }; s.mu.Unlock()
StopTake(reg, id) == MapDelete(reg, id)

StopLookup(t, id) ==
  /\ Alive
  /\ stops[t].pc = "idle"
  /\ IF id \in DOMAIN sessions
     THEN /\ stops' = [stops EXCEPT ![t] = [pc |-> "cancel", id |-> id, proc |-> sessions[id]]]
          /\ sessions' = StopTake(sessions, id)
     ELSE /\ stops' = [stops EXCEPT ![t] = [pc |-> "done", id |-> id, proc |-> NoProc]]
          /\ UNCHANGED sessions
  /\ UNCHANGED <<procs, pc, child, received, sendLog, panics>>

\* process.closeDebugFiles(); process.cancel()
StopCancel(t) ==
  /\ Alive
  /\ stops[t].pc = "cancel"
  /\ procs' = [procs EXCEPT ![stops[t].proc] = Cancel(CloseDebugFiles(@))]
  /\ stops' = [stops EXCEPT ![t].pc = "close"]
  /\ UNCHANGED <<sessions, pc, child, received, sendLog, panics>>

\* close(process.inputChan); close(process.errorChan); then Close on the
\* stdin, stdout and stderr pipes.
StopCloses(pr) ==
  [pr EXCEPT !.inputChan = ChanClose(@, "StopSession"),
             !.errorChan = ChanClose(@, "StopSession"),
             !.stdin = "closed", !.stdout = "closed", !.stderr = "closed"]

StopClose(t) ==
  /\ Alive
  /\ stops[t].pc = "close"
  /\ LET p == stops[t].proc IN
       /\ panics' = panics \cup DoubleClose(procs[p].inputChan)
                           \cup DoubleClose(procs[p].errorChan)
       /\ procs' = [procs EXCEPT ![p] = StopCloses(@)]
  /\ stops' = [stops EXCEPT ![t].pc = "wait"]
  /\ UNCHANGED <<sessions, pc, child, received, sendLog>>

\* The same teardown, statement by statement: first the two channels are
\* closed (claude.go 802-807), then the three pipes (claude.go 810-818).
StopCloseChannels(t) ==
  /\ Alive
  /\ stops[t].pc = "close"
  /\ LET p == stops[t].proc IN
       /\ panics' = panics \cup DoubleClose(procs[p].inputChan)
                           \cup DoubleClose(procs[p].errorChan)
       /\ procs' = [procs EXCEPT ![p].inputChan = ChanClose(@, "StopSession"),
                                 ![p].errorChan = ChanClose(@, "StopSession")]
  /\ stops' = [stops EXCEPT ![t].pc = "pipes"]
  /\ UNCHANGED <<sessions, pc, child, received, sendLog>>

StopClosePipes(t) ==
  /\ Alive
  /\ stops[t].pc = "pipes"
  /\ procs' = [procs EXCEPT ![stops[t].proc].stdin = "closed",
                            ![stops[t].proc].stdout = "closed",
                            ![stops[t].proc].stderr = "closed"]
  /\ stops' = [stops EXCEPT ![t].pc = "wait"]
  /\ UNCHANGED <<sessions, pc, child, received, sendLog, panics>>

\* process.cmd.Wait() returns once the child has exited; StopSession returns.
StopWait(t) ==
  /\ Alive
  /\ stops[t].pc = "wait"
  /\ ~child[stops[t].proc].running
  /\ procs' = [procs EXCEPT ![stops[t].proc].waited = TRUE]
  /\ stops' = [stops EXCEPT ![t].pc = "done"]
  /\ UNCHANGED <<sessions, pc, child, received, sendLog, panics>>

\* -------------------------------------------------------------- the child
\* The Agent child exits: on its own, or killed by exec.CommandContext once
\* the context is cancelled.
ChildExit(p) ==
  /\ Alive
  /\ child[p].running
  /\ child' = [child EXCEPT ![p].running = FALSE]
  /\ UNCHANGED <<sessions, procs, pc, stops, received, sendLog, panics>>

\* ------------------------------------------ ResumeSession (ClaudeService)
\* createResumedProcessWithDirs up to the init select: the child is started
\* with --resume, the Process is built with the stored session id and the
\* three goroutines are started; no initial message is sent.
ResumeSession(p, sessionID) ==
  /\ Alive
  /\ pc[p].create = "idle"
  /\ procs' = [procs EXCEPT ![p] = [NewProcess EXCEPT !.sessionID = sessionID]]
  /\ \E script \in Scripts(p) :
       child' = [child EXCEPT ![p] = [IdleChild EXCEPT !.running = TRUE, !.stderr = StderrScript,
                                                       !.script = script]]
  /\ pc' = [pc EXCEPT ![p] = [IdlePc EXCEPT !.create = "waitInit", !.stdout = "scan",
                                            !.stdin = "run", !.stderr = "scan"]]
  /\ UNCHANGED <<sessions, stops, received, sendLog, panics>>

\* The resume of the session process p itself reported.
ResumeStart(p) == ResumeSession(p, FreshId(p))

\* ============================================================ the SlackBot
\* config.MaxSessions (10 by default, scaled) and the thread ids of a run.
MaxSessions == 1
NumThreads == 3
\* The clock runs from 0 to MaxTime; config.SessionTimeout in clock units.
MaxTime == 2
SessionTimeout == 1

Threads == 1..NumThreads
\* The zero value "" of oldestTS in setSession.
NoThread == 0

\* createSessionID: the uuid the bot draws for the session of thread ts
BotSessionId(ts) == <<"bot", ts>>

\* &SlackClaudeSession{...} of createClaudeSession
NewSession(ts, t) ==
  [ThreadTS |-> ts, SessionID |-> BotSessionId(ts), LastActivity |-> t,
   Active |-> TRUE, Process |-> NoProc]

\* The orders in which `for ts, s := range b.sessions` may visit the keys.
RECURSIVE Perms(_)
Perms(S) ==
  IF S = {} THEN {<<>>}
  ELSE UNION {{<<x>> \o q : q \in Perms(S \ {x})} : x \in S}

RangeOrders(m) == Perms(DOMAIN m)

\* The loop without the !s.Active test: the oldest session of all.
RECURSIVE OldestOfAll(_, _, _, _)
OldestOfAll(m, o, i, old) ==
  IF i > Len(o) THEN old
  ELSE LET ts == o[i]
           s == m[ts]
       IN IF old = NoThread \/ s.LastActivity < m[old].LastActivity
          THEN OldestOfAll(m, o, i + 1, ts)
          ELSE OldestOfAll(m, o, i + 1, old)

\* The loop of setSession over the sessions in the order o, from position i:
\* old is oldestTS so far (its LastActivity is oldestTime).
RECURSIVE OldestInactive(_, _, _, _)
OldestInactive(m, o, i, old) ==
  IF i > Len(o) THEN old
  ELSE LET ts == o[i]
           s == m[ts]
       IN IF ~s.Active /\ (old = NoThread \/ s.LastActivity < m[old].LastActivity)
          THEN OldestInactive(m, o, i + 1, ts)
          ELSE OldestInactive(m, o, i + 1, old)

\* The key setSession deletes: none below the limit or with no inactive session.
Evicted(m, o) ==
  IF Cardinality(DOMAIN m) >= MaxSessions
  THEN OldestInactive(m, o, 1, NoThread)
  ELSE NoThread

\* One iteration order for each key the loop of setSession can end on: the
\* orders that end on the same key have the same effect.
EvictOrders(m) ==
  {CHOOSE o \in RangeOrders(m) : Evicted(m, o) = old :
     old \in {Evicted(m, x) : x \in RangeOrders(m)}}

\* setSession(threadTS, session), the map being ranged over in the order o
SetSession(m, o, ts, session) ==
  LET old == Evicted(m, o)
  IN MapSet(IF old # NoThread THEN MapDelete(m, old) ELSE m, ts, session)

\* updateSessionActivity(threadTS)
UpdateSessionActivity(m, ts, t) ==
  IF ts \in DOMAIN m THEN [m EXCEPT ![ts].LastActivity = t] ELSE m

\* The sessions idle for the timeout or longer.
IdleAtTimeout(m, t) == {ts \in DOMAIN m : t - m[ts].LastActivity >= SessionTimeout}

\* The sessions one tick of cleanupSessions deletes.
Idle(m, t) == {ts \in DOMAIN m : t - m[ts].LastActivity > SessionTimeout}

\* One tick of cleanupSessions
Cleanup(m, t) == [ts \in DOMAIN m \ Idle(m, t) |-> m[ts]]

\* The sessions the tick deleted, as it left them: session.Active = false.
Reaped(m, t) == [ts \in Idle(m, t) |-> [m[ts] EXCEPT !.Active = FALSE]]

\* The loop of Stop: session.Active = false for every session.
Deactivate(m) == [ts \in DOMAIN m |-> [m[ts] EXCEPT !.Active = FALSE]]

NoOp == [kind |-> "", full |-> FALSE, evicted |-> NoThread, removed |-> EmptyMap]

BotInit ==
  /\ botSessions = EmptyMap
  /\ bot = [stopped |-> FALSE, reaper |-> "running"]
  /\ flows = [p \in Procs |-> "none"]
  /\ now = 0
  /\ lastOp = NoOp

\* ---------------------------------------------- the thread index (binder)
\* createClaudeSession(userID, channelID, threadTS): a new active session is
\* stored under threadTS.
Put(ts) ==
  /\ \E o \in EvictOrders(botSessions) :
       /\ botSessions' = SetSession(botSessions, o, ts, NewSession(ts, now))
       /\ lastOp' = [kind |-> "Put",
                     full |-> Cardinality(DOMAIN botSessions) >= MaxSessions,
                     evicted |-> Evicted(botSessions, o),
                     removed |-> EmptyMap]
  /\ UNCHANGED <<bot, flows, now>>

Touch(ts) ==
  /\ botSessions' = UpdateSessionActivity(botSessions, ts, now)
  /\ lastOp' = NoOp
  /\ UNCHANGED <<bot, flows, now>>

\* removeSession(threadTS)
Remove(ts) ==
  /\ botSessions' = MapDelete(botSessions, ts)
  /\ lastOp' = NoOp
  /\ UNCHANGED <<bot, flows, now>>

\* case <-ticker.C of cleanupSessions
ReaperTick ==
  /\ bot.reaper = "running"
  /\ botSessions' = Cleanup(botSessions, now)
  /\ lastOp' = [NoOp EXCEPT !.kind = "Reap", !.removed = Reaped(botSessions, now)]
  /\ UNCHANGED <<bot, flows, now>>

\* case <-b.ctx.Done() of cleanupSessions
ReaperExit ==
  /\ bot.reaper = "running" /\ bot.stopped
  /\ bot' = [bot EXCEPT !.reaper = "exited"]
  /\ lastOp' = NoOp
  /\ UNCHANGED <<botSessions, flows, now>>

\* Stop(): b.cancel(), then every session of the index is marked inactive.
BotStop ==
  /\ bot' = [bot EXCEPT !.stopped = TRUE]
  /\ botSessions' = Deactivate(botSessions)
  /\ lastOp' = NoOp
  /\ UNCHANGED <<flows, now>>

\* Time passes.
Tick ==
  /\ now < MaxTime
  /\ now' = now + 1
  /\ lastOp' = NoOp
  /\ UNCHANGED <<botSessions, bot, flows>>

\* ------------------------------------------- the Dispatcher's simple workflow
\* The thread the workflow that creates process p runs in (the fresh
\* timestamp PostMessage returned).
ThreadOf(p) == p

\* handleSimpleWorkflow / handleAppMentionEvent, first half:
\* createClaudeSession stores the binding of the thread, before
\* streamClaudeInteraction asks the Session Service for the process.
FlowBind(p) ==
  /\ Alive
  /\ flows[p] = "none" /\ pc[p].create = "idle"
  /\ \E o \in EvictOrders(botSessions) :
       botSessions' = SetSession(botSessions, o, ThreadOf(p), NewSession(ThreadOf(p), now))
  /\ flows' = [flows EXCEPT ![p] = "bound"]
  /\ UNCHANGED <<bot, now, lastOp>>
  /\ UNCHANGED svcVars

\* streamClaudeInteraction calls CreateSessionWithOptions for the bound thread.
FlowCreate(p) == flows[p] = "bound" /\ CreateStart(p)

\* What streamClaudeInteraction does to the binding when CreateSessionWithOptions
\* has returned: on an error it posts the failure and returns, on success it
\* stores the process in the session.
AfterCreate(m, ts, p, result) ==
  IF result = "ok" /\ ts \in DOMAIN m THEN [m EXCEPT ![ts].Process = p] ELSE m

FlowResult(p) ==
  /\ Alive
  /\ flows[p] = "bound" /\ pc[p].create \in {"ok", "err"}
  /\ botSessions' = AfterCreate(botSessions, ThreadOf(p), p, pc[p].create)
  /\ flows' = [flows EXCEPT ![p] = IF pc[p].create = "ok" THEN "attached" ELSE "failed"]
  /\ UNCHANGED <<bot, now, lastOp>>
  /\ UNCHANGED svcVars

\* ======================================================= channel whitelist
\* Channel ids are strings over Chars of at most MaxChanLen characters.
Chars == {"C", "D"}
MaxChanLen == 2
ChannelIds == UNION {[1..n -> Chars] : n \in 0..MaxChanLen}

\* Regular expressions as token sequences: ^ $ . .* and literal characters;
\* "[" alone is an expression regexp.Compile rejects.
PatternPool ==
  { <<"^", "C">>, <<"D", "$">>, <<"^", "C", ".*", "D", "$">>, <<"C", "D">>, <<"[">> }
MaxPatterns == 2
WhitelistConfigs == UNION {[1..n -> PatternPool] : n \in 0..MaxPatterns}

\* regexp.Compile(pattern) succeeds
Compiles(pat) == \A i \in 1..Len(pat) : pat[i] # "["

\* The expression pat from token i on matches s from position j on.
RECURSIVE MatchHere(_, _, _, _)
MatchHere(pat, i, s, j) ==
  IF i > Len(pat) THEN TRUE
  ELSE CASE pat[i] = "^" -> j = 1 /\ MatchHere(pat, i + 1, s, j)
         [] pat[i] = "$" -> j = Len(s) + 1 /\ MatchHere(pat, i + 1, s, j)
         [] pat[i] = ".*" -> \E k \in j..(Len(s) + 1) : MatchHere(pat, i + 1, s, k)
         [] pat[i] = "." -> j <= Len(s) /\ MatchHere(pat, i + 1, s, j + 1)
         [] OTHER -> j <= Len(s) /\ s[j] = pat[i] /\ MatchHere(pat, i + 1, s, j + 1)

\* regex.MatchString(channelID): the expression matches somewhere in s.
MatchString(pat, s) == \E j \in 1..(Len(s) + 1) : MatchHere(pat, 1, s, j)

\* compileWhitelistPatterns(): the compiled list, or an error on the first
\* expression that does not compile.
CompileWhitelistPatterns(patterns) ==
  IF \E i \in 1..Len(patterns) : ~Compiles(patterns[i])
  THEN [ok |-> FALSE, patterns |-> patterns, whitelistRegexes |-> <<>>]
  ELSE [ok |-> TRUE, patterns |-> patterns, whitelistRegexes |-> patterns]

\* A loop that returns on its first iteration.
FirstMatches(regexes, i, channelID) == MatchString(regexes[i], channelID)

\* A check that also lets every channel pass once the bot holds a binding.
AllowedWhenBound(regexes, channelID) ==
  Len(regexes) = 0 \/ DOMAIN botSessions # {}
    \/ \E i \in 1..Len(regexes) : MatchString(regexes[i], channelID)

\* The loop of isChannelAllowed from the i-th compiled expression on.
RECURSIVE AnyMatches(_, _, _)
AnyMatches(regexes, i, channelID) ==
  IF i > Len(regexes) THEN FALSE
  ELSE IF MatchString(regexes[i], channelID) THEN TRUE
  ELSE AnyMatches(regexes, i + 1, channelID)

\* isChannelAllowed(channelID)
IsChannelAllowed(regexes, channelID) ==
  IF Len(regexes) = 0 THEN TRUE ELSE AnyMatches(regexes, 1, channelID)

\* prev: what the call before answered, when it was for the same channel id.
NoGate == [called |-> FALSE, channelID |-> <<>>, allowed |-> FALSE, prev |-> "none"]

\* New(): the bot is built only if the whitelist compiles.
GateInit ==
  /\ whitelist \in {CompileWhitelistPatterns(c) : c \in WhitelistConfigs}
  /\ gate = NoGate

GateIdle ==
  /\ whitelist = CompileWhitelistPatterns(<<>>)
  /\ gate = NoGate

\* An inbound event on channelID is checked against the whitelist.
GateCheck(channelID) ==
  /\ whitelist.ok
  /\ gate' = [called |-> TRUE, channelID |-> channelID,
              allowed |-> IsChannelAllowed(whitelist.whitelistRegexes, channelID),
              prev |-> IF gate.called /\ gate.channelID = channelID
                       THEN (IF gate.allowed THEN "yes" ELSE "no")
                       ELSE "none"]
  /\ UNCHANGED whitelist

\* ======================================================= the Dispatcher
\* ev.User and ev.BotID of a message event.
Users == {"", "U1"}
BotIDs == {"", "B1"}
\* The texts of the replies a user writes in thread ts, in the order the
\* chat source delivers them.
Replies(ts) == IF ts = 1 THEN <<"r1", "r2">> ELSE <<"s1", "s2">>
Prompt == "task"

NoEvent ==
  [kind |-> "", ChannelID |-> <<>>, ThreadTS |-> NoThread, Text |-> "",
   BotID |-> "", User |-> ""]
SlashCommand(channelID, text) ==
  [NoEvent EXCEPT !.kind = "slash", !.ChannelID = channelID, !.Text = text,
                  !.User = "U1"]
AppMentionEvent(channelID, ts, text) ==
  [NoEvent EXCEPT !.kind = "mention", !.ChannelID = channelID, !.ThreadTS = ts,
                  !.Text = text, !.User = "U1"]
MessageEvent(channelID, ts, text, botID, user) ==
  [kind |-> "message", ChannelID |-> channelID, ThreadTS |-> ts, Text |-> text,
   BotID |-> botID, User |-> user]

NoLoop == [loop |-> "running", last |-> NoEvent]

\* A goroutine started by a handler: the workflow of a slash command or an
\* app mention ("flow"), or the goroutine of sendToClaudeSession ("reply").
\* proc is the process the task works with, held is the envelope it took
\* from the outbound channel and has not posted yet, sent is the rank of
\* its text among the texts enqueued (0: not enqueued).
NewTask(kind, channelID, ts, text) ==
  [kind |-> kind, ChannelID |-> channelID, ThreadTS |-> ts, Text |-> text,
   pc |-> IF kind = "flow" THEN "post" ELSE "ack",
   proc |-> NoProc, held |-> NoMsg, sent |-> 0]

NoTasks == <<>>

\* The chat sink: the envelopes posted to each thread, in post order, and
\* the other messages posted.
NoChat == [posts |-> EmptyMap, notes |-> {}]

\* ---------------------------------------- the session store (UpdateActivity)
\* The retries UpdateActivity makes after the first attempt.
MaxRetries == 2
\* What one call of the store's UpdateSessionActivity returns: success or an
\* error whose message names its cause.
Transient == {"connection", "timeout", "deadlock"}
StoreErrors == Transient \cup {"constraint", "notfound"}
\* Does the manager create the record a "not found" error misses?
Repairs == {TRUE, FALSE}

NoCall ==
  [pc |-> "idle", ThreadTS |-> NoThread, attempts |-> 0, errs |-> <<>>,
   result |-> ""]
\* The durable records by thread, and the UpdateActivity call under way.
NoStore == [records |-> EmptyMap, call |-> NoCall]

\* A classification that takes every error for a transient one.
AnyErrorTransient(err) == TRUE

\* isTransientError(err): the message names a connection, timeout or
\* deadlock failure.
IsTransientError(err) == err \in Transient

\* isRaceConditionError(err): no active record was found.
IsRaceConditionError(err) == err = "notfound"

\* What the store can answer for thread ts: success needs an active record.
StoreAnswers(records, ts) ==
  StoreErrors \cup (IF ts \in DOMAIN records /\ records[ts].Active
                    THEN {"ok"} ELSE {})

\* sessionID := uuid.New().String() of CreateSessionWithPersistence, and the
\* models.ClaudeSession row it builds for thread ts.
RecordId(ts) == <<"rec", ts>>
NewRecord(ts) == [Active |-> TRUE, SessionID |-> RecordId(ts)]

\* ClaudeService.CreateSessionWithPersistence writes the durable record of
\* the session of thread ts, active.
PersistSession(ts) ==
  /\ ts \in DOMAIN botSessions /\ ts \notin DOMAIN store.records
  /\ store' = [store EXCEPT !.records = MapSet(@, ts, NewRecord(ts))]
  /\ UNCHANGED <<event, tasks, chat>>

\* cs.db.Create(dbSession) of CreateSessionWithPersistence for thread ts,
\* after the process was created: an error of the store is logged and the
\* process is returned all the same, no record being written.
CreateRecord(ts, err) ==
  /\ ts \notin DOMAIN store.records
  /\ store' = IF err = "" THEN [store EXCEPT !.records = MapSet(@, ts, NewRecord(ts))]
              ELSE store
  /\ UNCHANGED <<event, tasks, chat>>

\* ClaudeService.StopSession(id), second half, once Service.StopSession has
\* returned to stopper t: DeactivateSession looks the record up by
\* session_id and saves it inactive; without such a record the error is
\* logged.
DeactivateSession(t) ==
  /\ stops[t].pc = "done"
  /\ store' = [store EXCEPT !.records =
                 [ts \in DOMAIN @ |->
                    IF @[ts].SessionID = stops[t].id
                    THEN [@[ts] EXCEPT !.Active = FALSE] ELSE @[ts]]]
  /\ stops' = [stops EXCEPT ![t].pc = "returned"]
  /\ UNCHANGED <<event, tasks, chat>>
  /\ UNCHANGED <<sessions, procs, pc, child, received, sendLog, panics>>
  /\ UNCHANGED botVars

\* UpdateActivity(threadTS) is called: an empty thread id is refused before
\* the store is asked.
UpdateActivityCall(ts) ==
  /\ store.call.pc \in {"idle", "done"}
  /\ store' = [store EXCEPT !.call =
                 IF ts = NoThread
                 THEN [NoCall EXCEPT !.pc = "done", !.result = "empty"]
                 ELSE [NoCall EXCEPT !.pc = "attempt", !.ThreadTS = ts]]
  /\ UNCHANGED <<event, tasks, chat>>

\* One attempt: the store is called; success ends the call, a transient
\* error is retried after the backoff while retries are left, any other
\* error is returned (a missing record is created first when repair is on).
UpdateActivityAttempt(repair) ==
  /\ store.call.pc = "attempt"
  /\ \E out \in StoreAnswers(store.records, store.call.ThreadTS) :
       LET c == [store.call EXCEPT !.attempts = @ + 1, !.errs = Append(@, out)]
           ts == store.call.ThreadTS
       IN IF out = "ok"
          THEN store' = [store EXCEPT !.call = [c EXCEPT !.pc = "done", !.result = "ok"]]
          ELSE IF IsTransientError(out) /\ c.attempts <= MaxRetries
          THEN store' = [store EXCEPT !.call = [c EXCEPT !.pc = "backoff"]]
          ELSE store' =
                 [records |-> IF IsRaceConditionError(out) /\ repair
                              THEN MapSet(store.records, ts, NewRecord(ts))
                              ELSE store.records,
                  call |-> [c EXCEPT !.pc = "done", !.result = out]]
  /\ UNCHANGED <<event, tasks, chat>>

\* The backoff before the next attempt has passed.
UpdateActivityBackoff ==
  /\ store.call.pc = "backoff"
  /\ store' = [store EXCEPT !.call.pc = "attempt"]
  /\ UNCHANGED <<event, tasks, chat>>

\* b.client.PostMessage / b.postMessage of a status text
PostNote(ch, channelID, ts, kind) ==
  [ch EXCEPT !.notes = @ \cup {[ChannelID |-> channelID, ThreadTS |-> ts,
                                 kind |-> kind]}]

\* b.postMessage(session.ChannelID, session.ThreadTS, ...) of an envelope
PostEnvelope(ch, ts, msg) ==
  [ch EXCEPT !.posts = MapSet(@, ts, (IF ts \in DOMAIN @ THEN @[ts] ELSE <<>>)
                                       \o <<msg>>)]

\* The workflows not started yet: process p is the one the p-th workflow
\* asks the Session Service for, in the thread ThreadOf(p) its first post opens.
FreeSlots ==
  {p \in DOMAIN flows :
     /\ flows[p] = "none"
     /\ \A k \in DOMAIN tasks : ~(tasks[k].kind = "flow" /\ tasks[k].proc = p)}

StartFlow(channelID, text, p) ==
  Append(tasks, [NewTask("flow", channelID, ThreadOf(p), text) EXCEPT !.proc = p])

\* handleSlashCommand -> handleFlowCommand: a command without text is only
\* acknowledged; otherwise the workflow goroutine is started.
HandleFlowCommand(channelID, text) ==
  /\ event.loop = "running"
  /\ text # ""
  /\ \E p \in FreeSlots : tasks' = StartFlow(channelID, text, p)
  /\ event' = [event EXCEPT !.last = SlashCommand(channelID, text)]
  /\ UNCHANGED <<chat, store>>
  /\ UNCHANGED <<svcVars, botVars>>

\* handleAppMentionEvent: a mention without text is answered with a greeting
\* in the thread of the mention (ts = ev.ThreadTimeStamp), any other starts
\* the workflow goroutine, whose first post carries no thread timestamp.
HandleAppMention(channelID, ts, text) ==
  /\ event.loop = "running"
  /\ IF text = ""
     THEN /\ chat' = PostNote(chat, channelID, ts, "greeting")
          /\ UNCHANGED tasks
     ELSE /\ \E p \in FreeSlots : tasks' = StartFlow(channelID, text, p)
          /\ UNCHANGED chat
  /\ event' = [event EXCEPT !.last = AppMentionEvent(channelID, ts, text)]
  /\ UNCHANGED store
  /\ UNCHANGED <<svcVars, botVars>>

\* Early returns that let the messages of bots through.
IgnoredButBots(ev, m) ==
  \/ ev.User = ""
  \/ ev.ThreadTS = NoThread
  \/ ev.ThreadTS \notin DOMAIN m

\* The early returns of handleMessageEvent.
Ignored(ev, m) ==
  \/ ev.BotID # "" \/ ev.User = ""
  \/ ev.ThreadTS = NoThread
  \/ ev.ThreadTS \notin DOMAIN m

\* handleMessageEvent: a reply in a managed thread refreshes the binding and
\* goes to sendToClaudeSession, which starts a goroutine for an active session.
HandleMessage(ev) ==
  /\ event.loop = "running"
  /\ event' = [event EXCEPT !.last = ev]
  /\ IF Ignored(ev, botSessions)
     THEN UNCHANGED <<botSessions, tasks>>
     ELSE /\ botSessions' = UpdateSessionActivity(botSessions, ev.ThreadTS, now)
          /\ tasks' = IF botSessions[ev.ThreadTS].Active
                      THEN Append(tasks, NewTask("reply", ev.ChannelID,
                                                 ev.ThreadTS, ev.Text))
                      ELSE tasks
  /\ lastOp' = IF Ignored(ev, botSessions) THEN lastOp ELSE NoOp
  /\ UNCHANGED <<chat, store>>
  /\ UNCHANGED <<bot, flows, now>>
  /\ UNCHANGED svcVars

\* The replies of thread ts not delivered yet: the chat source delivers the
\* next one.
RepliesTo(ts) ==
  {k \in DOMAIN tasks : tasks[k].kind = "reply" /\ tasks[k].ThreadTS = ts}
NextReplies(ts) ==
  IF Cardinality(RepliesTo(ts)) < Len(Replies(ts))
  THEN {Replies(ts)[Cardinality(RepliesTo(ts)) + 1]} ELSE {}

\* The event loop of Start returns on <-b.ctx.Done().
LoopExit ==
  /\ event.loop = "running" /\ bot.stopped
  /\ event' = [event EXCEPT !.loop = "exited"]
  /\ UNCHANGED <<tasks, chat, store>>
  /\ UNCHANGED <<svcVars, botVars>>

\* The workflow goroutine posts its first message, which opens the thread.
FlowPost(k) ==
  /\ tasks[k].kind = "flow" /\ tasks[k].pc = "post"
  /\ chat' = PostNote(chat, tasks[k].ChannelID, tasks[k].ThreadTS, "starting")
  /\ tasks' = [tasks EXCEPT ![k].pc = "create"]
  /\ UNCHANGED <<event, store>>
  /\ UNCHANGED <<svcVars, botVars>>

\* handleSimpleWorkflow / the goroutine of handleAppMentionEvent:
\* createClaudeSession binds the thread.
FlowSession(k) ==
  /\ tasks[k].kind = "flow" /\ tasks[k].pc = "create"
  /\ FlowBind(tasks[k].proc)
  /\ tasks' = [tasks EXCEPT ![k].pc = "stream"]
  /\ UNCHANGED <<event, chat, store>>

\* sendToClaudeSession's goroutine posts "Processing your message...".
ReplyAck(k) ==
  /\ tasks[k].kind = "reply" /\ tasks[k].pc = "ack"
  /\ chat' = PostNote(chat, tasks[k].ChannelID, tasks[k].ThreadTS, "processing")
  /\ tasks' = [tasks EXCEPT ![k].pc = "send"]
  /\ UNCHANGED <<event, store>>
  /\ UNCHANGED <<svcVars, botVars>>

\* A lookup that answers with the process of the lowest bound thread.
FirstProcess(m, ts) ==
  IF DOMAIN m = {} THEN NoProc
  ELSE m[CHOOSE t \in DOMAIN m : \A u \in DOMAIN m : t <= u].Process

\* The rank the next enqueued text gets.
NextRank == 1 + Cardinality({k \in DOMAIN tasks : tasks[k].sent > 0})

\* process := session.Process of the session the task was started with.
ProcessOf(m, ts) == IF ts \in DOMAIN m THEN m[ts].Process ELSE NoProc

\* SendMessage(process, text) by the task: without a process the goroutine
\* posts that the session expired; a failed send is posted; after a send the
\* task goes on to handleClaudeResponseStream.
TaskSend(k) ==
  /\ tasks[k].pc = "send"
  /\ LET p == ProcessOf(botSessions, tasks[k].ThreadTS) IN
     IF p = NoProc
     THEN /\ chat' = PostNote(chat, tasks[k].ChannelID, tasks[k].ThreadTS, "expired")
          /\ tasks' = [tasks EXCEPT ![k].pc = "done"]
          /\ UNCHANGED svcVars
     ELSE /\ SendMessage(p, tasks[k].Text)
          /\ IF sendLog'.result = "send"
             THEN /\ tasks' = [tasks EXCEPT ![k].pc = "read", ![k].proc = p,
                                            ![k].sent = NextRank]
                  /\ UNCHANGED chat
             ELSE /\ tasks' = [tasks EXCEPT ![k].pc = "done", ![k].proc = p]
                  /\ chat' = PostNote(chat, tasks[k].ChannelID,
                                      tasks[k].ThreadTS, "failed")
  /\ UNCHANGED <<event, store>>
  /\ UNCHANGED botVars

\* One receive of handleClaudeResponseStream's loop on the channel
\* ReceiveMessages(process) returned: the task takes the next envelope and
\* refreshes the binding, or returns when the channel is closed and drained.
TaskRecv(k) ==
  /\ tasks[k].pc = "read"
  /\ LET p == tasks[k].proc
         ch == procs[p].outputChan
     IN /\ RecvReady(ch)
        /\ IF Len(ch.buf) > 0
           THEN /\ Receive(p)
                /\ tasks' = [tasks EXCEPT ![k].pc = "hold", ![k].held = Head(ch.buf)]
                /\ botSessions' =
                     UpdateSessionActivity(botSessions, tasks[k].ThreadTS, now)
                /\ lastOp' = NoOp
           ELSE /\ tasks' = [tasks EXCEPT ![k].pc = "done"]
                /\ UNCHANGED <<svcVars, botSessions, lastOp>>
  /\ UNCHANGED <<event, chat, store>>
  /\ UNCHANGED <<bot, flows, now>>

\* An envelope type that never ends the stream.
NeverCompletion(msg) == FALSE

\* case "completion" of handleClaudeResponseStream's switch
IsCompletion(msg) == msg.Type = "completion"

\* The switch on the type of the envelope the task took: a completion ends
\* the stream without a post, any other envelope is posted to the thread of
\* the task's session and the loop goes on.
TaskPost(k) ==
  /\ tasks[k].pc = "hold"
  /\ IF IsCompletion(tasks[k].held)
     THEN /\ tasks' = [tasks EXCEPT ![k].pc = "done", ![k].held = NoMsg]
          /\ UNCHANGED chat
     ELSE /\ chat' = PostEnvelope(chat, tasks[k].ThreadTS, tasks[k].held)
          /\ tasks' = [tasks EXCEPT ![k].pc = "read", ![k].held = NoMsg]
  /\ UNCHANGED <<event, store>>
  /\ UNCHANGED <<svcVars, botVars>>

\* case <-timeout of handleClaudeResponseStream: five minutes after the
\* stream began the task posts the timeout message and returns.
TaskTimeout(k) ==
  /\ tasks[k].pc = "read"
  /\ chat' = PostNote(chat, tasks[k].ChannelID, tasks[k].ThreadTS, "timeout")
  /\ tasks' = [tasks EXCEPT ![k].pc = "done"]
  /\ UNCHANGED <<event, store>>
  /\ UNCHANGED <<svcVars, botVars>>

DispIdle ==
  /\ event = NoLoop
  /\ tasks = NoTasks
  /\ chat = NoChat
  /\ store = NoStore

\* ========================================================== specifications
Init == SvcInit /\ BotInit /\ GateIdle /\ DispIdle

Next ==
  \/ \E p \in Procs :
       \/ FlowCreate(p) /\ UNCHANGED botVars /\ UNCHANGED gateVars /\ UNCHANGED dispVars
       \/ CreateSendInit(p) /\ UNCHANGED botVars /\ UNCHANGED gateVars /\ UNCHANGED dispVars
       \/ CreateWaitInit(p) /\ UNCHANGED botVars /\ UNCHANGED gateVars /\ UNCHANGED dispVars
       \/ StdoutScan(p) /\ UNCHANGED botVars /\ UNCHANGED gateVars /\ UNCHANGED dispVars
       \/ StdoutEOF(p) /\ UNCHANGED botVars /\ UNCHANGED gateVars /\ UNCHANGED dispVars
       \/ StdoutSend(p) /\ UNCHANGED botVars /\ UNCHANGED gateVars /\ UNCHANGED dispVars
       \/ StdinStep(p) /\ UNCHANGED botVars /\ UNCHANGED gateVars /\ UNCHANGED dispVars
       \/ StderrScan(p) /\ UNCHANGED botVars /\ UNCHANGED gateVars /\ UNCHANGED dispVars
       \/ StderrEOF(p) /\ UNCHANGED botVars /\ UNCHANGED gateVars /\ UNCHANGED dispVars
       \/ \E text \in Texts : SendMessage(p, text) /\ UNCHANGED botVars /\ UNCHANGED gateVars /\ UNCHANGED dispVars
       \/ Receive(p) /\ UNCHANGED botVars /\ UNCHANGED gateVars /\ UNCHANGED dispVars
       \/ ChildExit(p) /\ UNCHANGED botVars /\ UNCHANGED gateVars /\ UNCHANGED dispVars
       \/ FlowBind(p) /\ UNCHANGED gateVars /\ UNCHANGED dispVars
       \/ FlowResult(p) /\ UNCHANGED gateVars /\ UNCHANGED dispVars
  \/ \E t \in Stoppers :
       \/ \E id \in ReturnedIds : StopLookup(t, id) /\ UNCHANGED botVars /\ UNCHANGED gateVars /\ UNCHANGED dispVars
       \/ StopCancel(t) /\ UNCHANGED botVars /\ UNCHANGED gateVars /\ UNCHANGED dispVars
       \/ StopClose(t) /\ UNCHANGED botVars /\ UNCHANGED gateVars /\ UNCHANGED dispVars
       \/ StopWait(t) /\ UNCHANGED botVars /\ UNCHANGED gateVars /\ UNCHANGED dispVars

Spec == Init /\ [][Next]_vars

InitBinder == SvcInit /\ BotInit /\ GateIdle /\ DispIdle

NextBinder ==
  \/ \E ts \in Threads :
       \/ Put(ts) /\ UNCHANGED svcVars /\ UNCHANGED gateVars /\ UNCHANGED dispVars
       \/ Touch(ts) /\ UNCHANGED svcVars /\ UNCHANGED gateVars /\ UNCHANGED dispVars
       \/ Remove(ts) /\ UNCHANGED svcVars /\ UNCHANGED gateVars /\ UNCHANGED dispVars
  \/ ReaperTick /\ UNCHANGED svcVars /\ UNCHANGED gateVars /\ UNCHANGED dispVars
  \/ ReaperExit /\ UNCHANGED svcVars /\ UNCHANGED gateVars /\ UNCHANGED dispVars
  \/ BotStop /\ UNCHANGED svcVars /\ UNCHANGED gateVars /\ UNCHANGED dispVars
  \/ Tick /\ UNCHANGED svcVars /\ UNCHANGED gateVars /\ UNCHANGED dispVars

SpecBinder == InitBinder /\ [][NextBinder]_vars

InitGate == SvcInit /\ BotInit /\ GateInit /\ DispIdle

NextGate ==
  \E channelID \in ChannelIds :
    GateCheck(channelID) /\ UNCHANGED svcVars /\ UNCHANGED botVars /\ UNCHANGED dispVars

SpecGate == InitGate /\ [][NextGate]_vars

\* The whitelist checked while bindings come and go.
NextPure ==
  \/ \E channelID \in ChannelIds :
       GateCheck(channelID) /\ UNCHANGED svcVars /\ UNCHANGED botVars /\ UNCHANGED dispVars
  \/ \E ts \in Threads :
       \/ Put(ts) /\ UNCHANGED svcVars /\ UNCHANGED gateVars /\ UNCHANGED dispVars
       \/ Remove(ts) /\ UNCHANGED svcVars /\ UNCHANGED gateVars /\ UNCHANGED dispVars

SpecPure == InitGate /\ [][NextPure]_vars

\* ------------------------------------------------- live thread bindings
\* The state streamClaudeInteraction is in when CreateSessionWithOptions has
\* returned the process of each workflow of P and session.Process is set:
\* the child has written its init envelope, the process is registered and
\* its three goroutines run, and the workflow is about to send its prompt.
SessionMsg(p) == JsonLine("message", "", FreshId(p))
LiveScript(p) == <<InitLine(FreshId(p)), SessionMsg(p), BlankLine, SessionMsg(p)>>
LiveProcess(p) == [NewProcess EXCEPT !.sessionID = FreshId(p)]
LivePc ==
  [IdlePc EXCEPT !.create = "ok", !.result = "init", !.stdout = "scan",
                 !.stdin = "run", !.stderr = "scan"]
\* The same child, when it ends its first answer with a completion envelope.
CompletionScript(p) ==
  <<InitLine(FreshId(p)), SessionMsg(p),
    JsonLine("completion", "", FreshId(p)), SessionMsg(p)>>
LiveChild(p, scripts) ==
  [running |-> TRUE, script |-> scripts[p], pos |-> 1,
   stderr |-> StderrScript, errPos |-> 0]
\* The channel the threads of the live bindings are in.
LiveChannel == <<"C">>
LiveTask(p) ==
  [NewTask("flow", LiveChannel, ThreadOf(p), Prompt) EXCEPT !.pc = "send",
                                                            !.proc = p]
RECURSIVE LiveTasks(_)
LiveTasks(P) ==
  IF P = {} THEN <<>>
  ELSE LET p == CHOOSE q \in P : \A r \in P : q >= r
       IN Append(LiveTasks(P \ {p}), LiveTask(p))

LiveOf(P, children) ==
  /\ sessions = [id \in {FreshId(p) : p \in P} |-> id[2]]
  /\ procs = [p \in P |-> LiveProcess(p)]
  /\ pc = [p \in P |-> LivePc]
  /\ child = children
  /\ stops = [t \in Stoppers |-> IdleStop]
  /\ received = [p \in P |-> <<>>]
  /\ sendLog = NoSend
  /\ panics = {}
  /\ botSessions = [ts \in {ThreadOf(p) : p \in P} |->
                      [NewSession(ts, 0) EXCEPT !.Process = ts]]
  /\ bot = [stopped |-> FALSE, reaper |-> "running"]
  /\ flows = [p \in P |-> "attached"]
  /\ now = 0
  /\ lastOp = NoOp
  /\ event = NoLoop
  /\ tasks = LiveTasks(P)
  /\ chat = [posts |-> EmptyMap,
             notes |-> {[ChannelID |-> LiveChannel, ThreadTS |-> ThreadOf(p),
                         kind |-> "starting"] : p \in P}]
  /\ store = NoStore

LiveWith(P, scripts) == LiveOf(P, [p \in P |-> LiveChild(p, scripts)])

Live(P) == LiveWith(P, [p \in P |-> LiveScript(p)])

\* One live binding: replies arrive in its thread while the Agent answers,
\* beside message events of a bot, of no thread and of an unbound thread.
InitDispatch == Live({1}) /\ GateIdle

DispatchEvents ==
  {MessageEvent(LiveChannel, 1, text, "", "U1") : text \in NextReplies(1)}
  \cup {MessageEvent(LiveChannel, 1, Replies(1)[1], "B1", "U1"),
         MessageEvent(LiveChannel, NoThread, Replies(1)[1], "", "U1"),
         MessageEvent(LiveChannel, 2, Replies(2)[1], "", "U1")}

NextDispatch ==
  \/ \E ev \in DispatchEvents : HandleMessage(ev) /\ UNCHANGED gateVars
  \/ \E k \in DOMAIN tasks :
       \/ ReplyAck(k) /\ UNCHANGED gateVars
       \/ TaskSend(k) /\ UNCHANGED gateVars
       \/ TaskRecv(k) /\ UNCHANGED gateVars
       \/ TaskPost(k) /\ UNCHANGED gateVars
  \/ \E p \in DOMAIN procs :
       \/ StdoutScan(p) /\ UNCHANGED botVars /\ UNCHANGED gateVars /\ UNCHANGED dispVars
       \/ StdoutSend(p) /\ UNCHANGED botVars /\ UNCHANGED gateVars /\ UNCHANGED dispVars
       \/ StdinStep(p) /\ UNCHANGED botVars /\ UNCHANGED gateVars /\ UNCHANGED dispVars
  \/ BotStop /\ UNCHANGED svcVars /\ UNCHANGED gateVars /\ UNCHANGED dispVars
  \/ ReaperExit /\ UNCHANGED svcVars /\ UNCHANGED gateVars /\ UNCHANGED dispVars
  \/ LoopExit /\ UNCHANGED gateVars

SpecDispatch == InitDispatch /\ [][NextDispatch]_vars

\* Two live bindings: the first reply of each thread arrives while both
\* Agents answer.
InitRouting == Live({1, 2}) /\ GateIdle

RoutingEvents ==
  {MessageEvent(LiveChannel, ts, Replies(ts)[1], "", "U1") :
     ts \in {t \in DOMAIN botSessions : RepliesTo(t) = {}}}

NextRouting ==
  \/ \E ev \in RoutingEvents : HandleMessage(ev) /\ UNCHANGED gateVars
  \/ \E k \in DOMAIN tasks :
       \/ ReplyAck(k) /\ UNCHANGED gateVars
       \/ TaskSend(k) /\ UNCHANGED gateVars
       \/ TaskRecv(k) /\ UNCHANGED gateVars
       \/ TaskPost(k) /\ UNCHANGED gateVars
  \/ \E p \in DOMAIN procs :
       \/ StdoutScan(p) /\ UNCHANGED botVars /\ UNCHANGED gateVars /\ UNCHANGED dispVars
       \/ StdoutSend(p) /\ UNCHANGED botVars /\ UNCHANGED gateVars /\ UNCHANGED dispVars

SpecRouting == InitRouting /\ [][NextRouting]_vars

\* Two live bindings with durable records grow idle while the reaper ticks,
\* the users' activity refreshes them and the workflows send their prompts.
NextReaper ==
  \/ Tick /\ UNCHANGED svcVars /\ UNCHANGED gateVars /\ UNCHANGED dispVars
  \/ ReaperTick /\ UNCHANGED svcVars /\ UNCHANGED gateVars /\ UNCHANGED dispVars
  \/ \E ts \in DOMAIN botSessions :
       \/ Touch(ts) /\ UNCHANGED svcVars /\ UNCHANGED gateVars /\ UNCHANGED dispVars
       \/ PersistSession(ts) /\ UNCHANGED svcVars /\ UNCHANGED botVars /\ UNCHANGED gateVars
  \/ \E k \in DOMAIN tasks : TaskSend(k) /\ UNCHANGED gateVars
  \/ \E p \in DOMAIN procs :
       StdinStep(p) /\ UNCHANGED botVars /\ UNCHANGED gateVars /\ UNCHANGED dispVars

SpecReaper == InitRouting /\ [][NextReaper]_vars

\* The steps of building a process that can fail before it runs, in the
\* order the code takes them.
SetupSteps == <<"debugFiles", "stdinPipe", "stdoutPipe", "stderrPipe", "start">>
StepRank(step) == CHOOSE i \in DOMAIN SetupSteps : SetupSteps[i] = step

\* What is left of the process under construction when `step` fails.
\* openDebugFiles closes the files it opened itself; the context exists from
\* the pipes on and every later failure calls cancel(); a pipe opened by an
\* earlier step stays open, nothing closing it, except that a failed
\* cmd.Start() closes the pipes of the command; closesFiles tells whether
\* the failure path closes the debug log files.
SetupFailure(step, closesFiles) ==
  [NoProcess EXCEPT
     !.ctxDone = step # "debugFiles",
     !.debugFiles = IF step = "debugFiles" \/ ~Debug THEN "none"
                    ELSE IF closesFiles THEN "closed" ELSE "open",
     !.stdin = IF step = "start" THEN "closed"
               ELSE IF StepRank(step) > StepRank("stdinPipe") THEN "open" ELSE "none",
     !.stdout = IF step = "start" THEN "closed"
                ELSE IF StepRank(step) > StepRank("stdoutPipe") THEN "open" ELSE "none",
     !.stderr = IF step = "start" THEN "closed" ELSE "none"]

\* CreateSessionWithMultipleDirs returns the error of a failed step: each
\* failure path after the context calls cancel() and closes the log files.
CreateFail(p, step) ==
  /\ Alive
  /\ pc[p].create = "idle"
  /\ procs' = [procs EXCEPT ![p] = SetupFailure(step, TRUE)]
  /\ pc' = [pc EXCEPT ![p].create = "err", ![p].result = step]
  /\ UNCHANGED <<sessions, child, stops, received, sendLog, panics>>

\* createResumedProcessWithDirs returns the error of a failed step: each
\* failure path after the context calls cancel() and returns.
ResumeFail(p, step) ==
  /\ Alive
  /\ pc[p].create = "idle"
  /\ procs' = [procs EXCEPT ![p] = SetupFailure(step, FALSE)]
  /\ pc' = [pc EXCEPT ![p].create = "err", ![p].result = step]
  /\ UNCHANGED <<sessions, child, stops, received, sendLog, panics>>

\* A stored session is resumed: the init select of
\* createResumedProcessWithDirs beside the goroutines of the process.
NextResume ==
  \E p \in Procs :
    \/ ResumeStart(p) /\ UNCHANGED botVars /\ UNCHANGED gateVars /\ UNCHANGED dispVars
    \/ CreateWaitInit(p) /\ UNCHANGED botVars /\ UNCHANGED gateVars /\ UNCHANGED dispVars
    \/ StdoutScan(p) /\ UNCHANGED botVars /\ UNCHANGED gateVars /\ UNCHANGED dispVars
    \/ StdoutEOF(p) /\ UNCHANGED botVars /\ UNCHANGED gateVars /\ UNCHANGED dispVars
    \/ StdoutSend(p) /\ UNCHANGED botVars /\ UNCHANGED gateVars /\ UNCHANGED dispVars
    \/ StdinStep(p) /\ UNCHANGED botVars /\ UNCHANGED gateVars /\ UNCHANGED dispVars
    \/ StderrScan(p) /\ UNCHANGED botVars /\ UNCHANGED gateVars /\ UNCHANGED dispVars
    \/ StderrEOF(p) /\ UNCHANGED botVars /\ UNCHANGED gateVars /\ UNCHANGED dispVars
    \/ Receive(p) /\ UNCHANGED botVars /\ UNCHANGED gateVars /\ UNCHANGED dispVars
    \/ ChildExit(p) /\ UNCHANGED botVars /\ UNCHANGED gateVars /\ UNCHANGED dispVars

SpecResume == Init /\ [][NextResume]_vars

\* One live binding whose Agent ends its answer with a completion envelope:
\* the streams end by completion or by their timeout, and a reply follows.
InitInteraction == LiveWith({1}, [p \in {1} |-> CompletionScript(p)]) /\ GateIdle

NextInteraction ==
  \/ \E text \in NextReplies(1) \cap {Replies(1)[1]} :
       HandleMessage(MessageEvent(LiveChannel, 1, text, "", "U1"))
         /\ UNCHANGED gateVars
  \/ \E k \in DOMAIN tasks :
       \/ ReplyAck(k) /\ UNCHANGED gateVars
       \/ TaskSend(k) /\ UNCHANGED gateVars
       \/ TaskRecv(k) /\ UNCHANGED gateVars
       \/ TaskPost(k) /\ UNCHANGED gateVars
       \/ TaskTimeout(k) /\ UNCHANGED gateVars
  \/ \E p \in DOMAIN procs :
       \/ StdoutScan(p) /\ UNCHANGED botVars /\ UNCHANGED gateVars /\ UNCHANGED dispVars
       \/ StdoutSend(p) /\ UNCHANGED botVars /\ UNCHANGED gateVars /\ UNCHANGED dispVars
       \/ StdinStep(p) /\ UNCHANGED botVars /\ UNCHANGED gateVars /\ UNCHANGED dispVars

SpecInteraction == InitInteraction /\ [][NextInteraction]_vars

\* UpdateActivity calls on the session store.
NextActivity ==
  \/ \E ts \in {NoThread} \cup Threads :
       UpdateActivityCall(ts)
         /\ UNCHANGED svcVars /\ UNCHANGED botVars /\ UNCHANGED gateVars
  \/ \E repair \in Repairs :
       UpdateActivityAttempt(repair)
         /\ UNCHANGED svcVars /\ UNCHANGED botVars /\ UNCHANGED gateVars
  \/ UpdateActivityBackoff
       /\ UNCHANGED svcVars /\ UNCHANGED botVars /\ UNCHANGED gateVars

SpecActivity == Init /\ [][NextActivity]_vars

\* The Dispatcher takes events in channels of a configured whitelist.
\* The reply of a thread is written in the channel of the thread.
ChannelOf(ts) ==
  {tasks[k].ChannelID : k \in {j \in DOMAIN tasks : tasks[j].kind = "flow"
                                                    /\ tasks[j].ThreadTS = ts}}

\* The events of one behaviour come from one channel.
IntakeChannels ==
  IF event.last.kind = "" THEN ChannelIds ELSE {event.last.ChannelID}

NextIntake ==
  \/ \E channelID \in IntakeChannels :
       \/ HandleFlowCommand(channelID, Prompt) /\ UNCHANGED gateVars
       \/ \E text \in {"", Prompt} :
            HandleAppMention(channelID, NoThread, text) /\ UNCHANGED gateVars
  \/ \E ts \in DOMAIN botSessions :
       \E channelID \in ChannelOf(ts), text \in NextReplies(ts) :
         HandleMessage(MessageEvent(channelID, ts, text, "", "U1"))
           /\ UNCHANGED gateVars
  \/ \E k \in DOMAIN tasks :
       \/ FlowPost(k) /\ UNCHANGED gateVars
       \/ FlowSession(k) /\ UNCHANGED gateVars
       \/ ReplyAck(k) /\ UNCHANGED gateVars
       \/ TaskSend(k) /\ UNCHANGED gateVars

SpecIntake == InitGate /\ [][NextIntake]_vars

\* ================================================================= claims
\* The id the Agent child of p reported: that of the first init envelope
\* among the lines it has written, EmptyId when it has written none.
InitPositions(p) ==
  {n \in 1..child[p].pos : child[p].script[n].type = "system"
                            /\ child[p].script[n].subtype = "init"}

ReportedId(p) ==
  IF InitPositions(p) = {} THEN EmptyId
  ELSE child[p].script[CHOOSE n \in InitPositions(p) :
                          \A k \in InitPositions(p) : n <= k].session_id

\* The registry keys that hold process p.
KeysOf(p) == {id \in DOMAIN sessions : sessions[id] = p}

\* The StopSession calls that found process p.
StoppersOf(p) == {t \in Stoppers : stops[t].proc = p}

\* C1: every successful CreateSession has exactly one registry entry, keyed
\* by the session id the Agent reported in its init envelope, until the
\* matching StopSession runs; after it the registry has no entry for the id.
C1_RegisteredOnce ==
  \A p \in Procs :
    pc[p].create = "ok" =>
      IF StoppersOf(p) = {}
      THEN ReportedId(p) # EmptyId /\ KeysOf(p) = {ReportedId(p)}
      ELSE KeysOf(p) = {}

\* C2: when StopSession returns for a registered process, its three pipes
\* and its debug files are closed, the child has been waited on and the
\* outbound queue has been closed by the stdout goroutine.
C2_StopTearsDown ==
  \A t \in Stoppers :
    (stops[t].pc = "done" /\ stops[t].proc # NoProc) =>
      LET pr == procs[stops[t].proc]
      IN /\ pr.stdin = "closed" /\ pr.stdout = "closed" /\ pr.stderr = "closed"
         /\ pr.debugFiles # "open"
         /\ pr.waited
         /\ pr.outputChan.closed
         /\ pr.outputChan.closers = <<"handleStdout">>

\* C3: what the reader of ReceiveMessages(p) has received is, in order and
\* without repetition, the decoding of non-blank lines the child wrote:
\* the line numbers of the received envelopes increase strictly.
C3_ReceivedInOrder ==
  \A p \in Procs :
    LET d == received[p]
    IN /\ \A i \in 1..Len(d) :
            /\ d[i].seq \in 1..child[p].pos
            /\ ~IsBlank(child[p].script[d[i].seq])
            /\ d[i] = ParseLine(child[p].script[d[i].seq], d[i].seq)
       /\ \A i, j \in 1..Len(d) : i < j => d[i].seq < d[j].seq

\* C3 witness: the reader has received two envelopes the child wrote with a
\* blank line between them.
C3_TwoReceived ==
  \E p \in Procs :
    /\ Len(received[p]) = 2
    /\ received[p][2].seq - received[p][1].seq = 2
    /\ IsBlank(child[p].script[received[p][1].seq + 1])

\* C4: when the child never emits an init envelope and CreateSession has
\* returned the init timeout to the workflow, the process's cancellation has
\* fired, the registry has no entry for the process and the index holds no
\* binding for the originating thread.
C4_InitTimeoutLeavesNothing ==
  \A p \in Procs :
    (pc[p].create = "err" /\ pc[p].result = "timeout" /\ flows[p] = "failed") =>
      /\ procs[p].ctxDone
      /\ KeysOf(p) = {}
      /\ ThreadOf(p) \notin DOMAIN botSessions

\* C5: CreateSession returns a process only if the init envelope was
\* received: the process's session id is then the non-empty id the init
\* envelope carried; on EOF before any init envelope it registers nothing.
C5_SuccessOnlyAfterInit ==
  \A p \in Procs :
    /\ pc[p].create = "ok" =>
         (procs[p].sessionID # EmptyId /\ procs[p].sessionID = ReportedId(p))
    /\ ReportedId(p) = EmptyId => KeysOf(p) = {}

\* C6: a SendMessage called on a process whose cancellation had already
\* fired returns the cancelled error: it neither succeeds and enqueues the
\* message nor ends any other way.
C6_CancelledSendFails ==
  (sendLog.proc # NoProc /\ sendLog.cancelled) => sendLog.result = "cancelled"

\* The channels of a process.
ChanNames == {"inputChan", "outputChan", "initComplete", "errorChan"}

\* C7: in every interleaving of the StopSession calls with the goroutines of
\* a process, each of its channels is closed at most once (no close of a
\* closed channel), and StopSession never closes the outbound queue.
C7_ClosedAtMostOnce ==
  /\ "close of closed channel" \notin panics
  /\ \A p \in Procs :
       /\ \A c \in ChanNames : Len(procs[p][c].closers) <= 1
       /\ \A i \in 1..Len(procs[p].outputChan.closers) :
            procs[p].outputChan.closers[i] # "StopSession"

\* C7 witness: two StopSession calls for the same id have returned, one tore
\* the process down and the other found no entry, and all four channels of
\* the process are closed.
C7_StoppedTwice ==
  \E t, u \in Stoppers :
    /\ stops[t].pc = "done" /\ stops[t].proc # NoProc
    /\ stops[u].pc = "done" /\ stops[u].proc = NoProc
    /\ stops[u].id = stops[t].id
    /\ \A c \in ChanNames : procs[stops[t].proc][c].closed

\* The inactive bindings of an index.
Inactive(m) == {ts \in DOMAIN m : ~m[ts].Active}

\* C8: a Put on an index that holds MaxSessions entries or more, one of
\* them inactive, evicts exactly one binding: an inactive one whose
\* LastActivity is minimal among the inactive bindings. No Put ever removes
\* an active binding.
C8_PutEvictsOldestInactive ==
  [][ lastOp'.kind = "Put" =>
        LET m == botSessions
            e == lastOp'.evicted
        IN /\ (Cardinality(DOMAIN m) >= MaxSessions /\ Inactive(m) # {}) =>
                /\ e \in Inactive(m)
                /\ \A k \in Inactive(m) : m[e].LastActivity <= m[k].LastActivity
                /\ (DOMAIN m \ DOMAIN botSessions') \subseteq {e}
                /\ \E ts \in Threads :
                     DOMAIN botSessions' = (DOMAIN m \ {e}) \cup {ts}
           /\ \A k \in DOMAIN m \ Inactive(m) : k \in DOMAIN botSessions'
    ]_vars

\* C8 witness: a Put on a full index has evicted a binding while another
\* inactive binding stayed.
C8_Evicted ==
  /\ lastOp.kind = "Put" /\ lastOp.full
  /\ lastOp.evicted # NoThread
  /\ lastOp.evicted \notin DOMAIN botSessions
  /\ Inactive(botSessions) # {}

\* C9: a Put at capacity with no inactive binding inserts the new binding
\* and evicts nothing, the index then exceeding MaxSessions by one; after
\* any sequence of Put, Remove, Touch and reaper ticks the index never holds
\* more than MaxSessions + 1 bindings.
C9_IndexAtMostOneOver ==
  Cardinality(DOMAIN botSessions) <= MaxSessions + 1

\* Whether some compiled expression of the whitelist matches the channel id.
SomeMatch(regexes, channelID) ==
  \E i \in 1..Len(regexes) : MatchString(regexes[i], channelID)

\* C10: isChannelAllowed returns true exactly when the compiled list is
\* empty or some compiled expression matches the channel id; with a
\* non-empty list and no match it returns false.
C10_AllowedIffEmptyOrMatch ==
  gate.called =>
    (gate.allowed <=> (Len(whitelist.whitelistRegexes) = 0
                       \/ SomeMatch(whitelist.whitelistRegexes, gate.channelID)))

\* C10 witness: a non-empty channel id was refused by a list of two
\* compiled expressions.
C10_Refused ==
  /\ gate.called /\ ~gate.allowed
  /\ Len(whitelist.whitelistRegexes) = 2
  /\ Len(gate.channelID) > 0

C12_RejectedEventDropped ==
  \A channelID \in ChannelIds :
    ~IsChannelAllowed(whitelist.whitelistRegexes, channelID) =>
      /\ \A k \in DOMAIN tasks : tasks[k].ChannelID # channelID
      /\ \A n \in chat.notes : n.ChannelID # channelID

\* C13: UpdateActivity asks the store at most MaxRetries + 1 times; every
\* attempt but the last failed with a transient error, so it stops at the
\* first success and after one attempt when the first failure is not
\* transient, and then returns that error.
C13_BoundedRetries ==
  LET c == store.call IN
  /\ c.attempts = Len(c.errs) /\ c.attempts <= MaxRetries + 1
  /\ \A i \in 1..(Len(c.errs) - 1) : c.errs[i] \in Transient
  /\ (c.pc = "done" /\ c.errs # <<>> /\ c.errs[1] \notin Transient \cup {"ok"})
       => (c.attempts = 1 /\ c.result = c.errs[1])
  /\ (c.pc = "done" /\ c.errs # <<>>) => c.result = c.errs[Len(c.errs)]

\* C13 witness: a call that gave up after MaxRetries + 1 transient failures.
C13_GaveUp ==
  /\ store.call.pc = "done" /\ store.call.attempts = MaxRetries + 1
  /\ store.call.result \in Transient

\* C14: a message event of a bot, of no thread or of a thread without a
\* binding changes nothing: not the index, not the registry, no process, no
\* inbound queue, no task and no post.
C14_IgnoredEventChangesNothing ==
  [][ (/\ event'.last # event.last /\ event'.last.kind = "message"
       /\ \/ event'.last.BotID # ""
          \/ event'.last.ThreadTS = NoThread
          \/ event'.last.ThreadTS \notin DOMAIN botSessions)
      => /\ botSessions' = botSessions /\ sessions' = sessions
         /\ procs' = procs /\ pc' = pc /\ child' = child
         /\ tasks' = tasks /\ chat' = chat
    ]_vars

\* C14 witness: the bot's own message in the bound thread 1 was the last
\* event, and no reply of thread 1 is worked on.
C14_BotMessageSeen ==
  /\ event.last.kind = "message" /\ event.last.BotID # ""
  /\ event.last.ThreadTS \in DOMAIN botSessions
  /\ RepliesTo(event.last.ThreadTS) = {}
  /\ \E k \in DOMAIN tasks : tasks[k].sent > 0

\* C15: the inbound queue of a process holds only texts written in the
\* thread the process is bound to, and every envelope posted to a thread was
\* emitted by the process bound to it.
C15_NoCrossRouting ==
  /\ \A p \in DOMAIN procs :
       \A i \in 1..Len(procs[p].inputChan.buf) :
         procs[p].inputChan.buf[i].Text
           \in {Prompt, Replies(ThreadOf(p))[1], Replies(ThreadOf(p))[2]}
  /\ \A ts \in DOMAIN chat.posts :
       \A i \in 1..Len(chat.posts[ts]) :
         /\ ts \in DOMAIN botSessions
         /\ chat.posts[ts][i].SessionID = FreshId(botSessions[ts].Process)

\* C15 witness: both processes hold a reply of their own thread and an
\* envelope of each has been posted.
C15_BothServed ==
  /\ \A p \in DOMAIN procs :
       \E i \in 1..Len(procs[p].inputChan.buf) :
         procs[p].inputChan.buf[i].Text = Replies(ThreadOf(p))[1]
  /\ \A ts \in DOMAIN botSessions :
       ts \in DOMAIN chat.posts /\ Len(chat.posts[ts]) > 0
  /\ Cardinality(DOMAIN procs) > 1

\* C16: the replies of one thread are enqueued on the inbound queue in the
\* order their message events were delivered.
C16_RepliesEnqueuedInOrder ==
  \A k1, k2 \in DOMAIN tasks :
    (/\ tasks[k1].kind = "reply" /\ tasks[k2].kind = "reply"
     /\ tasks[k1].ThreadTS = tasks[k2].ThreadTS
     /\ k1 < k2 /\ tasks[k2].sent > 0)
      => (tasks[k1].sent > 0 /\ tasks[k1].sent < tasks[k2].sent)

\* C17: the envelopes posted to a thread are in the order the Agent emitted
\* them.
C17_PostedInOrder ==
  \A ts \in DOMAIN chat.posts :
    \A i, j \in 1..Len(chat.posts[ts]) :
      i < j => chat.posts[ts][i].seq < chat.posts[ts][j].seq

\* C18: a reaper tick removes exactly the bindings idle for longer than the
\* timeout and leaves them inactive, leaves every other binding as it was,
\* and touches neither the registry nor any Agent process.
C18_ReaperTick ==
  [][ (lastOp'.kind = "Reap" /\ (lastOp' # lastOp \/ botSessions' # botSessions))
      => /\ \A ts \in DOMAIN botSessions' :
              now - botSessions'[ts].LastActivity <= SessionTimeout
         /\ \A ts \in DOMAIN botSessions :
              IF now - botSessions[ts].LastActivity > SessionTimeout
              THEN /\ ts \notin DOMAIN botSessions'
                   /\ ts \in DOMAIN lastOp'.removed
                   /\ ~lastOp'.removed[ts].Active
              ELSE /\ ts \in DOMAIN botSessions'
                   /\ botSessions'[ts] = botSessions[ts]
                   /\ ts \notin DOMAIN lastOp'.removed
         /\ sessions' = sessions /\ procs' = procs /\ pc' = pc
         /\ child' = child /\ stops' = stops
    ]_vars

\* C18 witness: the tick removed one binding and kept the other, and the
\* process of the removed binding is still registered and running.
C18_OneReaped ==
  /\ lastOp.kind = "Reap"
  /\ DOMAIN lastOp.removed # {} /\ DOMAIN botSessions # {}
  /\ \A ts \in DOMAIN lastOp.removed :
       LET p == lastOp.removed[ts].Process
       IN /\ child[p].running /\ ~procs[p].ctxDone
          /\ sessions[procs[p].sessionID] = p

\* C19: the durable record of every binding the reaper removed is inactive.
C19_ReapedRecordInactive ==
  lastOp.kind = "Reap" =>
    \A ts \in DOMAIN lastOp.removed :
      ts \in DOMAIN store.records => ~store.records[ts].Active

\* C20: once Stop has run, every binding is inactive and no registered
\* Agent process is still running with its context not cancelled.
C20_StopCancelsProcesses ==
  bot.stopped =>
    /\ \A ts \in DOMAIN botSessions : ~botSessions[ts].Active
    /\ \A id \in DOMAIN sessions :
         procs[sessions[id]].ctxDone \/ ~child[sessions[id]].running

\* C21: a resumed process is never sent the synthetic first message; the
\* resume succeeds only when the child's init envelope was read, and
\* without one nothing is registered.
C21_ResumeNeedsInit ==
  \A p \in Procs :
    /\ \A i \in 1..Len(procs[p].inputChan.buf) :
         procs[p].inputChan.buf[i].Text # InitialText
    /\ pc[p].create = "ok" => InitPositions(p) # {}
    /\ InitPositions(p) = {} => KeysOf(p) = {}

\* C22: a stream reader that took a completion envelope, or whose timeout
\* expired, ends alone: it posts no envelope, and the step leaves the
\* process, the registry, the binding and every other task as they were.
C22_EndOfInteractionKeepsSession ==
  [][ \A k \in DOMAIN tasks :
        LET completed == tasks[k].pc = "hold" /\ tasks[k].held.Type = "completion"
                         /\ tasks'[k] # tasks[k]
            timedOut == tasks[k].pc = "read" /\ tasks'[k].pc = "done"
                        /\ chat'.notes # chat.notes
        IN (completed \/ timedOut)
           => /\ tasks'[k].pc = "done" /\ chat'.posts = chat.posts
              /\ procs' = procs /\ pc' = pc /\ child' = child
              /\ sessions' = sessions /\ botSessions' = botSessions
              /\ \A j \in DOMAIN tasks : j # k => tasks'[j] = tasks[j]
    ]_vars

\* C22 witness: the workflow's stream ended on the completion envelope, and
\* a later reply was enqueued on the same process, still registered and not
\* cancelled, and the envelope that answers it was posted.
C22_AnsweredAfterCompletion ==
  /\ tasks[1].pc = "done" /\ tasks[1].sent > 0
  /\ \E k \in DOMAIN tasks : tasks[k].kind = "reply" /\ tasks[k].sent > 0
  /\ 1 \in DOMAIN chat.posts
  /\ \E i \in 1..Len(chat.posts[1]) : chat.posts[1][i].seq = 4
  /\ \A t \in DOMAIN tasks : \A n \in chat.notes : n.kind # "timeout"
  /\ ~procs[1].ctxDone /\ sessions[procs[1].sessionID] = 1
  /\ botSessions[1].Process = 1

\* The envelopes of process p that left handleStdout's decoding, oldest
\* first: those the reader took, those queued on the outbound channel and
\* the one handleStdout is about to send.
Outbound(p) ==
  received[p] \o procs[p].outputChan.buf
    \o (IF pc[p].stdout = "send" THEN <<pc[p].msg>> ELSE <<>>)

NextMention ==
  \/ \E ts \in {NoThread} \cup DOMAIN botSessions, text \in {"", Prompt} :
       HandleAppMention(LiveChannel, ts, text) /\ UNCHANGED gateVars
  \/ \E k \in DOMAIN tasks :
       \/ FlowPost(k) /\ UNCHANGED gateVars
       \/ FlowSession(k) /\ UNCHANGED gateVars
  \/ \E ts \in DOMAIN botSessions, err \in {"", "constraint"} :
       CreateRecord(ts, err) /\ UNCHANGED svcVars /\ UNCHANGED botVars
                             /\ UNCHANGED gateVars

\* The bot after NewSlackBot, able to run the workflows of three mentions.
Workflows == {1, 2, 3}
InitMention ==
  /\ sessions = EmptyMap
  /\ procs = [p \in Workflows |-> NoProcess]
  /\ pc = [p \in Workflows |-> IdlePc]
  /\ child = [p \in Workflows |-> IdleChild]
  /\ stops = [t \in Stoppers |-> IdleStop]
  /\ received = [p \in Workflows |-> <<>>]
  /\ sendLog = NoSend
  /\ panics = {}
  /\ botSessions = EmptyMap
  /\ bot = [stopped |-> FALSE, reaper |-> "running"]
  /\ flows = [p \in Workflows |-> "none"]
  /\ now = 0
  /\ lastOp = NoOp
  /\ GateIdle /\ DispIdle

SpecMention == InitMention /\ [][NextMention]_vars

\* C24: an app mention with text that arrives inside an existing thread
\* opens no new thread: handling it starts no workflow, whose first post
\* would open a thread of its own and bind it.
C24_MentionInThreadOpensNoThread ==
  [][(/\ event'.last.kind = "mention"
      /\ event'.last.ThreadTS # NoThread
      /\ event'.last.Text # ""
      /\ Len(tasks') > Len(tasks))
       => tasks'[Len(tasks')].kind # "flow"]_vars

\* C25: every thread binding has a durable record in the store, also when
\* the store's create call failed after the process was created.
C25_BindingHasRecord ==
  \A ts \in DOMAIN botSessions : ts \in DOMAIN store.records

\* C26: once the init envelope of a binding's process has been received,
\* the session id held in the thread binding equals the id the Agent
\* reported, under which the process is registered.
C26_BindingIdIsAgentId ==
  \A ts \in DOMAIN botSessions :
    LET p == botSessions[ts].Process
    IN (p # NoProc /\ procs[p].sessionID # EmptyId)
         => /\ botSessions[ts].SessionID = procs[p].sessionID
            /\ botSessions[ts].SessionID = ReportedId(p)

\* The session of thread 1 created through the persistence facade: its
\* process is live, the store is asked to create its record, and the
\* session is stopped through the facade by either of its two ids.
NextFacade ==
  \/ \E err \in {"", "constraint"} :
       CreateRecord(1, err) /\ UNCHANGED svcVars /\ UNCHANGED botVars
                            /\ UNCHANGED gateVars
  \/ \E t \in Stoppers :
       \/ \E id \in {FreshId(1), RecordId(1)} :
            StopLookup(t, id) /\ UNCHANGED botVars /\ UNCHANGED gateVars
                              /\ UNCHANGED dispVars
       \/ StopCancel(t) /\ UNCHANGED botVars /\ UNCHANGED gateVars /\ UNCHANGED dispVars
       \/ StopClose(t) /\ UNCHANGED botVars /\ UNCHANGED gateVars /\ UNCHANGED dispVars
       \/ StopWait(t) /\ UNCHANGED botVars /\ UNCHANGED gateVars /\ UNCHANGED dispVars
       \/ DeactivateSession(t) /\ UNCHANGED gateVars
  \/ \E p \in DOMAIN procs :
       \/ StdoutScan(p) /\ UNCHANGED botVars /\ UNCHANGED gateVars /\ UNCHANGED dispVars
       \/ StdoutEOF(p) /\ UNCHANGED botVars /\ UNCHANGED gateVars /\ UNCHANGED dispVars
       \/ StdoutSend(p) /\ UNCHANGED botVars /\ UNCHANGED gateVars /\ UNCHANGED dispVars
       \/ ChildExit(p) /\ UNCHANGED botVars /\ UNCHANGED gateVars /\ UNCHANGED dispVars

SpecFacade == InitDispatch /\ [][NextFacade]_vars

\* C27: when ClaudeService.StopSession(id) returns for the session created
\* with a durable record, its process has been stopped and taken out of the
\* registry and its record is inactive; and no step deletes a record.
C27_StopDeactivatesRecord ==
  [][/\ DOMAIN store.records \subseteq DOMAIN store'.records
     /\ \A t \in Stoppers :
          (/\ stops[t].pc = "done" /\ stops'[t].pc = "returned"
           /\ 1 \in DOMAIN store.records)
            => /\ procs'[1].ctxDone
               /\ \A id \in DOMAIN sessions' : sessions'[id] # 1
               /\ ~store'.records[1].Active]_vars

ProcessState(p) ==
  CASE ~procs[p].exists -> "None"
    [] procs[p].waited -> "Terminated"
    [] procs[p].ctxDone \/ pc[p].create = "err" -> "Terminating"
    [] pc[p].create = "ok" -> "Running"
    [] OTHER -> "Initializing"

\* The steps of the lifecycle graph.
LifecycleSteps ==
  {<<"None", "Initializing">>, <<"Initializing", "Running">>,
   <<"Initializing", "Terminating">>, <<"Initializing", "Terminated">>,
   <<"Running", "Terminating">>, <<"Terminating", "Terminated">>}

\* One process from its creation to its stop; every goroutine that can
\* take a step eventually takes one, and a child whose context is
\* cancelled is killed.
NextLifecycle ==
  \/ \E p \in Procs :
       \/ CreateStart(p) /\ UNCHANGED botVars /\ UNCHANGED gateVars /\ UNCHANGED dispVars
       \/ CreateSendInit(p) /\ UNCHANGED botVars /\ UNCHANGED gateVars /\ UNCHANGED dispVars
       \/ CreateWaitInit(p) /\ UNCHANGED botVars /\ UNCHANGED gateVars /\ UNCHANGED dispVars
       \/ StdoutScan(p) /\ UNCHANGED botVars /\ UNCHANGED gateVars /\ UNCHANGED dispVars
       \/ StdoutEOF(p) /\ UNCHANGED botVars /\ UNCHANGED gateVars /\ UNCHANGED dispVars
       \/ StdoutSend(p) /\ UNCHANGED botVars /\ UNCHANGED gateVars /\ UNCHANGED dispVars
       \/ StdinStep(p) /\ UNCHANGED botVars /\ UNCHANGED gateVars /\ UNCHANGED dispVars
       \/ Receive(p) /\ UNCHANGED botVars /\ UNCHANGED gateVars /\ UNCHANGED dispVars
       \/ ChildExit(p) /\ UNCHANGED botVars /\ UNCHANGED gateVars /\ UNCHANGED dispVars
  \/ \E t \in Stoppers :
       \/ \E id \in ReturnedIds : StopLookup(t, id) /\ UNCHANGED botVars /\ UNCHANGED gateVars /\ UNCHANGED dispVars
       \/ StopCancel(t) /\ UNCHANGED botVars /\ UNCHANGED gateVars /\ UNCHANGED dispVars
       \/ StopClose(t) /\ UNCHANGED botVars /\ UNCHANGED gateVars /\ UNCHANGED dispVars
       \/ StopWait(t) /\ UNCHANGED botVars /\ UNCHANGED gateVars /\ UNCHANGED dispVars

SpecLifecycle == Init /\ [][NextLifecycle]_vars /\ WF_vars(NextLifecycle)

\* C29: a process moves only along the lifecycle graph, is never
\* registered once its cancellation has fired, and after its cancellation
\* has fired it eventually reaches Terminated (unless the program has
\* panicked).
C29_LifecycleOrder ==
  /\ [][\A p \in Procs :
          /\ ProcessState(p)' # ProcessState(p)
               => <<ProcessState(p), ProcessState(p)'>> \in LifecycleSteps
          /\ procs[p].ctxDone => KeysOf(p)' = {}]_vars
  /\ \A p \in Procs :
       (procs[p].ctxDone /\ Alive) ~> (ProcessState(p) = "Terminated" \/ ~Alive)

\* One process whose child runs and exits on its own while its caller
\* reads the answers and sends messages; nobody calls StopSession.
NextExit ==
  \E p \in Procs :
    \/ CreateStart(p) /\ UNCHANGED botVars /\ UNCHANGED gateVars /\ UNCHANGED dispVars
    \/ CreateSendInit(p) /\ UNCHANGED botVars /\ UNCHANGED gateVars /\ UNCHANGED dispVars
    \/ CreateWaitInit(p) /\ UNCHANGED botVars /\ UNCHANGED gateVars /\ UNCHANGED dispVars
    \/ StdoutScan(p) /\ UNCHANGED botVars /\ UNCHANGED gateVars /\ UNCHANGED dispVars
    \/ StdoutEOF(p) /\ UNCHANGED botVars /\ UNCHANGED gateVars /\ UNCHANGED dispVars
    \/ StdoutSend(p) /\ UNCHANGED botVars /\ UNCHANGED gateVars /\ UNCHANGED dispVars
    \/ StdinStep(p) /\ UNCHANGED botVars /\ UNCHANGED gateVars /\ UNCHANGED dispVars
    \/ \E text \in Texts : SendMessage(p, text) /\ UNCHANGED botVars /\ UNCHANGED gateVars /\ UNCHANGED dispVars
    \/ Receive(p) /\ UNCHANGED botVars /\ UNCHANGED gateVars /\ UNCHANGED dispVars
    \/ ChildExit(p) /\ UNCHANGED botVars /\ UNCHANGED gateVars /\ UNCHANGED dispVars

SpecExit == Init /\ [][NextExit]_vars /\ WF_vars(NextExit)

\* C30: once the child of a created process has exited on its own and
\* handleStdout has seen the end of its output, the outbound channel is
\* closed, no SendMessage on the process enqueues a message any more, and
\* the process eventually leaves the registry.
C30_ChildExitEndsSession ==
  /\ [][\A p \in Procs :
          (~child[p].running /\ pc[p].stdout = "done" /\ pc[p].create = "ok")
            => /\ procs[p].outputChan.closed
               /\ Len(procs'[p].inputChan.buf) <= Len(procs[p].inputChan.buf)]_vars
  /\ \A p \in Procs :
       (~child[p].running /\ pc[p].stdout = "done" /\ pc[p].create = "ok")
         ~> KeysOf(p) = {}

\* What the child of the stderr runs writes to its stderr: a blank line, a
\* plain line, three lines that name an error in different cases (one more
\* than the error channel holds) and a near miss.
StderrLines ==
  << <<" ", " ">>,
     <<"w", "a", "r", "n">>,
     <<"E", "R", "R", "O", "R", ":", " ", "x">>,
     <<" ", "j", "o", "b", " ", "F", "a", "i", "l", "e", "d">>,
     <<"T", "i", "m", "e", "o", "u", "t">>,
     <<"t", "i", "m", "e", " ", "o", "u", "t">> >>

InitStderr ==
  /\ LiveOf({1}, [p \in {1} |->
                   [LiveChild(p, [q \in {1} |-> LiveScript(q)])
                      EXCEPT !.stderr = StderrLines]])
  /\ GateIdle

\* The stderr monitor of a live process reads the child's stderr while the
\* session is stopped.
NextStderr ==
  \/ \E p \in DOMAIN procs :
       \/ StderrScan(p) /\ UNCHANGED botVars /\ UNCHANGED gateVars /\ UNCHANGED dispVars
       \/ StderrEOF(p) /\ UNCHANGED botVars /\ UNCHANGED gateVars /\ UNCHANGED dispVars
       \/ ChildExit(p) /\ UNCHANGED botVars /\ UNCHANGED gateVars /\ UNCHANGED dispVars
  \/ \E t \in Stoppers :
       \/ StopLookup(t, FreshId(1)) /\ UNCHANGED botVars /\ UNCHANGED gateVars /\ UNCHANGED dispVars
       \/ StopCancel(t) /\ UNCHANGED botVars /\ UNCHANGED gateVars /\ UNCHANGED dispVars
       \/ StopCloseChannels(t) /\ UNCHANGED botVars /\ UNCHANGED gateVars /\ UNCHANGED dispVars
       \/ StopClosePipes(t) /\ UNCHANGED botVars /\ UNCHANGED gateVars /\ UNCHANGED dispVars
       \/ StopWait(t) /\ UNCHANGED botVars /\ UNCHANGED gateVars /\ UNCHANGED dispVars

SpecStderr == InitStderr /\ [][NextStderr]_vars

\* The line names the word, in whatever case its letters are written.
C31_Names(line, word) ==
  \E i \in 0..(Len(line) - Len(word)) :
    \A j \in 1..Len(word) :
      \/ line[i + j] = word[j]
      \/ \E k \in DOMAIN LowerCase : LowerCase[k] = word[j] /\ UpperCase[k] = line[i + j]

\* C31: each stderr line the monitor reads is published as an error
\* envelope exactly when it names error, failed or timeout in any case; the
\* envelope is dropped when the error channel is full, and in either case
\* the monitor goes on reading: it neither blocks nor fails.
C31_ErrorLinesPublished ==
  [][\A p \in DOMAIN procs :
       child'[p].errPos = child[p].errPos + 1 =>
         LET line == child[p].stderr[child'[p].errPos]
             ch == procs[p].errorChan
             named == \/ C31_Names(line, <<"e", "r", "r", "o", "r">>)
                      \/ C31_Names(line, <<"f", "a", "i", "l", "e", "d">>)
                      \/ C31_Names(line, <<"t", "i", "m", "e", "o", "u", "t">>)
         IN /\ panics' = panics
            /\ pc'[p].stderr = "scan"
            /\ IF named /\ Len(ch.buf) < ChanCap
               THEN /\ Len(procs'[p].errorChan.buf) = Len(ch.buf) + 1
                    /\ procs'[p].errorChan.buf[Len(ch.buf) + 1].Type = "error"
                    /\ procs'[p].errorChan.buf[Len(ch.buf) + 1].Subtype = "process_error"
               ELSE procs'[p].errorChan = ch]_vars

\* Sessions are created and resumed; building the process may fail at any
\* step.
NextSetup ==
  \E p \in Procs :
    \/ \E i \in DOMAIN SetupSteps :
         CreateFail(p, SetupSteps[i]) /\ UNCHANGED botVars /\ UNCHANGED gateVars /\ UNCHANGED dispVars
    \/ \E i \in DOMAIN SetupSteps :
         ResumeFail(p, SetupSteps[i]) /\ UNCHANGED botVars /\ UNCHANGED gateVars /\ UNCHANGED dispVars
    \/ CreateStart(p) /\ UNCHANGED botVars /\ UNCHANGED gateVars /\ UNCHANGED dispVars
    \/ ResumeStart(p) /\ UNCHANGED botVars /\ UNCHANGED gateVars /\ UNCHANGED dispVars
    \/ CreateSendInit(p) /\ UNCHANGED botVars /\ UNCHANGED gateVars /\ UNCHANGED dispVars
    \/ CreateWaitInit(p) /\ UNCHANGED botVars /\ UNCHANGED gateVars /\ UNCHANGED dispVars
    \/ StdoutScan(p) /\ UNCHANGED botVars /\ UNCHANGED gateVars /\ UNCHANGED dispVars
    \/ StdoutEOF(p) /\ UNCHANGED botVars /\ UNCHANGED gateVars /\ UNCHANGED dispVars
    \/ StdoutSend(p) /\ UNCHANGED botVars /\ UNCHANGED gateVars /\ UNCHANGED dispVars
    \/ StdinStep(p) /\ UNCHANGED botVars /\ UNCHANGED gateVars /\ UNCHANGED dispVars
    \/ ChildExit(p) /\ UNCHANGED botVars /\ UNCHANGED gateVars /\ UNCHANGED dispVars

SpecSetup == Init /\ [][NextSetup]_vars

\* C32: when building a process has failed at a step before it runs, in
\* CreateSession or in ResumeSession, the cancellation has been fired (from
\* the step on that has a context), no debug log file and no pipe is left
\* open, and the registry and the store are as they were.
C32_FailedSetupLeavesNothing ==
  \A p \in Procs :
    (pc[p].create = "err" /\ \E i \in DOMAIN SetupSteps : pc[p].result = SetupSteps[i])
      => /\ pc[p].result # "debugFiles" => procs[p].ctxDone
         /\ procs[p].debugFiles # "open"
         /\ procs[p].stdin # "open" /\ procs[p].stdout # "open"
         /\ procs[p].stderr # "open"
         /\ sessions = EmptyMap /\ store = NoStore

\* A child that answers with more envelopes than the outbound channel holds.
FloodScript(p) ==
  [i \in 1..(ChanCap + 2) |-> IF i = 1 THEN InitLine(FreshId(p)) ELSE SessionMsg(p)]

\* Either nothing was created yet, or one process is live whose caller does
\* not read its answers.
InitCancel ==
  \/ Init
  \/ LiveWith({1}, [p \in {1} |-> FloodScript(p)]) /\ GateIdle

\* Processes are created, resumed and stopped while nobody reads the
\* outbound channel; goroutines that can take a step eventually take one and
\* a child whose context is cancelled is killed.
NextCancel ==
  \/ \E p \in DOMAIN procs :
       \/ CreateStart(p) /\ UNCHANGED botVars /\ UNCHANGED gateVars /\ UNCHANGED dispVars
       \/ ResumeStart(p) /\ UNCHANGED botVars /\ UNCHANGED gateVars /\ UNCHANGED dispVars
       \/ CreateSendInit(p) /\ UNCHANGED botVars /\ UNCHANGED gateVars /\ UNCHANGED dispVars
       \/ CreateWaitInit(p) /\ UNCHANGED botVars /\ UNCHANGED gateVars /\ UNCHANGED dispVars
       \/ StdoutScan(p) /\ UNCHANGED botVars /\ UNCHANGED gateVars /\ UNCHANGED dispVars
       \/ StdoutEOF(p) /\ UNCHANGED botVars /\ UNCHANGED gateVars /\ UNCHANGED dispVars
       \/ StdoutSend(p) /\ UNCHANGED botVars /\ UNCHANGED gateVars /\ UNCHANGED dispVars
       \/ StdinStep(p) /\ UNCHANGED botVars /\ UNCHANGED gateVars /\ UNCHANGED dispVars
       \/ StderrScan(p) /\ UNCHANGED botVars /\ UNCHANGED gateVars /\ UNCHANGED dispVars
       \/ StderrEOF(p) /\ UNCHANGED botVars /\ UNCHANGED gateVars /\ UNCHANGED dispVars
       \/ ChildExit(p) /\ UNCHANGED botVars /\ UNCHANGED gateVars /\ UNCHANGED dispVars
  \/ \E t \in Stoppers :
       \/ \E id \in ReturnedIds : StopLookup(t, id) /\ UNCHANGED botVars /\ UNCHANGED gateVars /\ UNCHANGED dispVars
       \/ StopCancel(t) /\ UNCHANGED botVars /\ UNCHANGED gateVars /\ UNCHANGED dispVars
       \/ StopCloseChannels(t) /\ UNCHANGED botVars /\ UNCHANGED gateVars /\ UNCHANGED dispVars
       \/ StopClosePipes(t) /\ UNCHANGED botVars /\ UNCHANGED gateVars /\ UNCHANGED dispVars
       \/ StopWait(t) /\ UNCHANGED botVars /\ UNCHANGED gateVars /\ UNCHANGED dispVars

SpecCancel == InitCancel /\ [][NextCancel]_vars /\ WF_vars(NextCancel)

\* C33: once the cancellation of a process has fired, its stdin drain, its
\* stdout drain and its stderr monitor all eventually exit (or the program
\* has ended in a panic).
C33_GoroutinesExitAfterCancel ==
  \A p \in Procs :
    procs[p].ctxDone
      ~> \/ /\ pc[p].stdin = "done" /\ pc[p].stdout = "done"
            /\ pc[p].stderr = "done"
         \/ ~Alive

\* C33 witness: the process was cancelled while its stdout drain held the
\* third answer, the outbound channel being full and unread, and the three
\* goroutines have exited.
C33_ExitedFromBlockedSend ==
  \E p \in Procs :
    /\ procs[p].ctxDone /\ Alive
    /\ pc[p].stdin = "done" /\ pc[p].stdout = "done" /\ pc[p].stderr = "done"
    /\ child[p].script = FloodScript(p) /\ child[p].pos = Len(FloodScript(p))
    /\ Len(procs[p].outputChan.buf) = ChanCap /\ received[p] = <<>>

\* Processes are created and written to while nobody reads the outbound
\* channel and nobody stops a session.
NextBlocked ==
  \E p \in DOMAIN procs :
    \/ CreateStart(p) /\ UNCHANGED botVars /\ UNCHANGED gateVars /\ UNCHANGED dispVars
    \/ CreateSendInit(p) /\ UNCHANGED botVars /\ UNCHANGED gateVars /\ UNCHANGED dispVars
    \/ CreateWaitInit(p) /\ UNCHANGED botVars /\ UNCHANGED gateVars /\ UNCHANGED dispVars
    \/ StdoutScan(p) /\ UNCHANGED botVars /\ UNCHANGED gateVars /\ UNCHANGED dispVars
    \/ StdoutEOF(p) /\ UNCHANGED botVars /\ UNCHANGED gateVars /\ UNCHANGED dispVars
    \/ StdoutSend(p) /\ UNCHANGED botVars /\ UNCHANGED gateVars /\ UNCHANGED dispVars
    \/ StdinStep(p) /\ UNCHANGED botVars /\ UNCHANGED gateVars /\ UNCHANGED dispVars
    \/ \E text \in Texts : SendMessage(p, text) /\ UNCHANGED botVars /\ UNCHANGED gateVars /\ UNCHANGED dispVars
    \/ ChildExit(p) /\ UNCHANGED botVars /\ UNCHANGED gateVars /\ UNCHANGED dispVars

\* The scheduler runs every goroutine that can take a step: the caller
\* inside CreateSession, the stdout drain and the stdin drain.
FairBlocked ==
  \A p \in Procs :
    /\ WF_vars((CreateSendInit(p) \/ CreateWaitInit(p))
                 /\ UNCHANGED botVars /\ UNCHANGED gateVars /\ UNCHANGED dispVars)
    /\ WF_vars((StdoutScan(p) \/ StdoutEOF(p) \/ StdoutSend(p))
                 /\ UNCHANGED botVars /\ UNCHANGED gateVars /\ UNCHANGED dispVars)
    /\ WF_vars(StdinStep(p)
                 /\ UNCHANGED botVars /\ UNCHANGED gateVars /\ UNCHANGED dispVars)

SpecBlocked == InitCancel /\ [][NextBlocked]_vars /\ FairBlocked

\* C34: no blocking point of the Session Service blocks for ever, even
\* when the peer never reads: CreateSession's enqueue of the first message,
\* its wait for the init envelope and the stdout drain's enqueue on the
\* outbound channel each come to an end.
C34_NoBlockingForever ==
  \A p \in Procs :
    /\ pc[p].create = "sendInit" ~> (pc[p].create # "sendInit" \/ ~Alive)
    /\ pc[p].create = "waitInit" ~> (pc[p].create # "waitInit" \/ ~Alive)
    /\ pc[p].stdout = "send" ~> (pc[p].stdout # "send" \/ ~Alive)

\* A workflow binds its thread and creates its process while the user
\* already replies in the thread and the bot is stopped.
NextAttach ==
  \/ HandleFlowCommand(LiveChannel, Prompt) /\ UNCHANGED gateVars
  \/ \E ts \in DOMAIN botSessions :
       \E text \in NextReplies(ts) :
         HandleMessage(MessageEvent(LiveChannel, ts, text, "", "U1")) /\ UNCHANGED gateVars
  \/ \E k \in DOMAIN tasks :
       \/ FlowPost(k) /\ UNCHANGED gateVars
       \/ FlowSession(k) /\ UNCHANGED gateVars
       \/ ReplyAck(k) /\ UNCHANGED gateVars
       \/ TaskSend(k) /\ UNCHANGED gateVars
  \/ \E p \in Procs :
       \/ FlowCreate(p) /\ UNCHANGED botVars /\ UNCHANGED gateVars /\ UNCHANGED dispVars
       \/ CreateSendInit(p) /\ UNCHANGED botVars /\ UNCHANGED gateVars /\ UNCHANGED dispVars
       \/ CreateWaitInit(p) /\ UNCHANGED botVars /\ UNCHANGED gateVars /\ UNCHANGED dispVars
       \/ StdoutScan(p) /\ UNCHANGED botVars /\ UNCHANGED gateVars /\ UNCHANGED dispVars
       \/ StdoutEOF(p) /\ UNCHANGED botVars /\ UNCHANGED gateVars /\ UNCHANGED dispVars
       \/ StdinStep(p) /\ UNCHANGED botVars /\ UNCHANGED gateVars /\ UNCHANGED dispVars
       \/ ChildExit(p) /\ UNCHANGED botVars /\ UNCHANGED gateVars /\ UNCHANGED dispVars
       \/ FlowResult(p) /\ UNCHANGED gateVars /\ UNCHANGED dispVars
  \/ BotStop /\ UNCHANGED svcVars /\ UNCHANGED gateVars /\ UNCHANGED dispVars

SpecAttach == Init /\ [][NextAttach]_vars

\* The accesses to the mutable fields of the binding of thread ts that
\* tasks are about to make, nothing ordering them: who, which field,
\* whether it writes and whether it holds b.mu.
\*  - streamClaudeInteraction: session.Process = process, without the lock;
\*  - the goroutine of sendToClaudeSession: process := session.Process,
\*    without the lock;
\*  - sendToClaudeSession in the event handler: !session.Active, without
\*    the lock, for an event that arrives in the thread;
\*  - Stop: session.Active = false, under b.mu.Lock().
PendingAccesses(ts) ==
  {[task |-> <<"flow", p>>, field |-> "Process", write |-> TRUE, locked |-> FALSE] :
     p \in {q \in Procs : ThreadOf(q) = ts /\ flows[q] = "bound" /\ pc[q].create = "ok"}}
  \cup
  {[task |-> <<"reply", k>>, field |-> "Process", write |-> FALSE, locked |-> FALSE] :
     k \in {j \in DOMAIN tasks : tasks[j].kind = "reply" /\ tasks[j].pc = "send"
                                  /\ tasks[j].ThreadTS = ts}}
  \cup
  (IF event.loop = "running" /\ ts \in DOMAIN botSessions /\ NextReplies(ts) # {}
   THEN {[task |-> <<"handler", 0>>, field |-> "Active", write |-> FALSE, locked |-> FALSE]}
   ELSE {})
  \cup
  (IF ~bot.stopped /\ ts \in DOMAIN botSessions
   THEN {[task |-> <<"stop", 0>>, field |-> "Active", write |-> TRUE, locked |-> TRUE]}
   ELSE {})

\* C35: no two tasks are about to access the same mutable field of a
\* binding, one of them writing, unless both hold the Thread Binder mutex.
C35_BindingFieldsUnderLock ==
  \A ts \in Threads :
    \A a, b \in PendingAccesses(ts) :
      (a.task # b.task /\ a.field = b.field /\ (a.write \/ b.write))
        => (a.locked /\ b.locked)

\* Process 1 is live and registered under its id; ResumeSession is called
\* for that id, or CreateSession once more, in the slot of process 2.
Pair == {1, 2}
InitRegister ==
  /\ sessions = [id \in {FreshId(1)} |-> 1]
  /\ procs = [p \in Pair |-> IF p = 1 THEN LiveProcess(1) ELSE NoProcess]
  /\ pc = [p \in Pair |-> IF p = 1 THEN LivePc ELSE IdlePc]
  /\ child = [p \in Pair |-> IF p = 1 THEN LiveChild(1, [q \in {1} |-> LiveScript(q)])
                                      ELSE IdleChild]
  /\ stops = [t \in Stoppers |-> IdleStop]
  /\ received = [p \in Pair |-> <<>>]
  /\ sendLog = NoSend
  /\ panics = {}
  /\ botSessions = EmptyMap
  /\ bot = [stopped |-> FALSE, reaper |-> "running"]
  /\ flows = [p \in Pair |-> "none"]
  /\ now = 0
  /\ lastOp = NoOp
  /\ GateIdle /\ DispIdle

NextRegister ==
  \/ ResumeSession(2, FreshId(1)) /\ UNCHANGED botVars /\ UNCHANGED gateVars /\ UNCHANGED dispVars
  \/ CreateStart(2) /\ UNCHANGED botVars /\ UNCHANGED gateVars /\ UNCHANGED dispVars
  \/ \E p \in Pair :
       \/ CreateSendInit(p) /\ UNCHANGED botVars /\ UNCHANGED gateVars /\ UNCHANGED dispVars
       \/ CreateWaitInit(p) /\ UNCHANGED botVars /\ UNCHANGED gateVars /\ UNCHANGED dispVars
       \/ StdoutScan(p) /\ UNCHANGED botVars /\ UNCHANGED gateVars /\ UNCHANGED dispVars
       \/ StdoutEOF(p) /\ UNCHANGED botVars /\ UNCHANGED gateVars /\ UNCHANGED dispVars
       \/ StdoutSend(p) /\ UNCHANGED botVars /\ UNCHANGED gateVars /\ UNCHANGED dispVars
       \/ StdinStep(p) /\ UNCHANGED botVars /\ UNCHANGED gateVars /\ UNCHANGED dispVars
       \/ ChildExit(p) /\ UNCHANGED botVars /\ UNCHANGED gateVars /\ UNCHANGED dispVars

SpecRegister == InitRegister /\ [][NextRegister]_vars

\* A process that was created, is not cancelled and whose child runs.
IsLive(p) == procs[p].exists /\ ~procs[p].ctxDone /\ child[p].running

\* C36: a registration never replaces the registry entry of a process that
\* is still live: while the process of an entry runs uncancelled, the entry
\* stays and keeps naming that process.
C36_RegisterKeepsLiveEntries ==
  [][ \A id \in DOMAIN sessions :
        IsLive(sessions[id]) => (id \in DOMAIN sessions' /\ sessions'[id] = sessions[id]) ]_vars

\* ------------------------------------------------- the lines on stdin
\* The texts the user sends in the thread: plain, with a line break, with a
\* quote and a backslash; and the characters of each.
StdinTexts == <<"a", "a\nb", "\"\\">>
Bytes(text) ==
  CASE text = "a" -> <<"a">>
    [] text = "a\nb" -> <<"a", "\n", "b">>
    [] text = "\"\\" -> <<"\"", "\\">>
    [] OTHER -> <<"t">>
NextStdinTexts ==
  IF Cardinality(RepliesTo(1)) < Len(StdinTexts)
  THEN {StdinTexts[Cardinality(RepliesTo(1)) + 1]} ELSE {}

\* json.Marshal of a string: quote, backslash and line break are escaped.
RECURSIVE Escape(_)
Escape(text) ==
  IF text = <<>> THEN <<>>
  ELSE LET c == Head(text) IN
       (CASE c = "\n" -> <<"\\", "n">>
          [] c = "\"" -> <<"\\", "\"">>
          [] c = "\\" -> <<"\\", "\\">>
          [] OTHER -> <<c>>) \o Escape(Tail(text))

\* The decoding of an escaped string by the reader of the line.
RECURSIVE Unescape(_)
Unescape(chars) ==
  IF chars = <<>> THEN <<>>
  ELSE IF Head(chars) = "\\" /\ Len(chars) >= 2
       THEN <<(IF chars[2] = "n" THEN "\n" ELSE chars[2])>> \o Unescape(Tail(Tail(chars)))
       ELSE <<Head(chars)>> \o Unescape(Tail(chars))

\* json.Marshal(message): the envelope with its text as a JSON string.
Marshal(message) == <<"{", "\"">> \o Escape(Bytes(message.Text)) \o <<"\"", "}">>

\* fmt.Fprintln(process.stdin, string(m)): the bytes and a line break.
Fprintln(m) == Append(m, "\n")

\* The text of the envelope a line of stdin carries.
TextOfLine(line) == Unescape(SubSeq(line, 3, Len(line) - 3))

\* What a step writes to the child's stdin: handleStdin's write of the
\* envelope it took from the queue, when the write succeeds.
Written(p) ==
  IF /\ pc[p].stdin = "run"
     /\ Len(procs'[p].inputChan.buf) < Len(procs[p].inputChan.buf)
     /\ StdinWritable(p)
  THEN Fprintln(Marshal(Head(procs[p].inputChan.buf)))
  ELSE <<>>

\* The replies of a live thread are enqueued and drained while the session
\* is stopped and the child exits.
NextStdin ==
  \/ \E text \in NextStdinTexts :
       HandleMessage(MessageEvent(LiveChannel, 1, text, "", "U1")) /\ UNCHANGED gateVars
  \/ \E k \in RepliesTo(1) :
       \/ ReplyAck(k) /\ UNCHANGED gateVars
       \/ TaskSend(k) /\ UNCHANGED gateVars
  \/ \E p \in DOMAIN procs :
       \/ StdinStep(p) /\ UNCHANGED botVars /\ UNCHANGED gateVars /\ UNCHANGED dispVars
       \/ ChildExit(p) /\ UNCHANGED botVars /\ UNCHANGED gateVars /\ UNCHANGED dispVars
  \/ \E t \in Stoppers :
       \/ StopLookup(t, FreshId(1)) /\ UNCHANGED botVars /\ UNCHANGED gateVars /\ UNCHANGED dispVars
       \/ StopCancel(t) /\ UNCHANGED botVars /\ UNCHANGED gateVars /\ UNCHANGED dispVars
       \/ StopCloseChannels(t) /\ UNCHANGED botVars /\ UNCHANGED gateVars /\ UNCHANGED dispVars
       \/ StopClosePipes(t) /\ UNCHANGED botVars /\ UNCHANGED gateVars /\ UNCHANGED dispVars
       \/ StopWait(t) /\ UNCHANGED botVars /\ UNCHANGED gateVars /\ UNCHANGED dispVars

\* The scheduler runs the stdin drain whenever it can take a step.
FairStdin ==
  \A p \in Procs :
    WF_vars(StdinStep(p) /\ UNCHANGED botVars /\ UNCHANGED gateVars /\ UNCHANGED dispVars)

SpecStdin == InitDispatch /\ [][NextStdin]_vars /\ FairStdin

\* The envelopes queued for process p that carry the text.
Queued(p, text) ==
  {i \in 1..Len(procs[p].inputChan.buf) : procs[p].inputChan.buf[i].Text = text}

\* C37: the stdin drain takes the envelopes in the order they were
\* enqueued, each once, and writes each as one line that carries its text;
\* an envelope SendMessage enqueued is eventually written, unless the
\* process was cancelled or the write to stdin failed.
C37_StdinInOrder ==
  /\ [][ \A p \in DOMAIN procs :
          LET q == procs[p].inputChan.buf
              r == procs'[p].inputChan.buf
          IN /\ Len(r) > Len(q) => SubSeq(r, 1, Len(q)) = q /\ Len(r) = Len(q) + 1
             /\ Len(r) < Len(q) => r = Tail(q)
             /\ Len(r) = Len(q) => r = q
             /\ Written(p) # <<>> =>
                  /\ {i \in 1..Len(Written(p)) : Written(p)[i] = "\n"} = {Len(Written(p))}
                  /\ TextOfLine(Written(p)) = Bytes(Head(q).Text) ]_vars
  /\ \A p \in Procs : \A n \in 1..Len(StdinTexts) :
        (Queued(p, StdinTexts[n]) # {})
          ~> (Queued(p, StdinTexts[n]) = {} \/ procs[p].ctxDone \/ pc[p].stdin = "done")

\* Two replies wait in the queue of a running drain, the one with the line
\* break first.
C37_TwoQueued ==
  /\ pc[1].stdin = "run" /\ StdinWritable(1) /\ ~procs[1].ctxDone
  /\ Len(procs[1].inputChan.buf) = 2
  /\ procs[1].inputChan.buf[1].Text = StdinTexts[2]

\* A live process is sent messages and its stderr is monitored while
\* StopSession runs on it step by step.
NextStopRace ==
  \/ \E p \in DOMAIN procs :
       \/ \E text \in Texts :
            SendMessage(p, text) /\ UNCHANGED botVars /\ UNCHANGED gateVars /\ UNCHANGED dispVars
       \/ StdinStep(p) /\ UNCHANGED botVars /\ UNCHANGED gateVars /\ UNCHANGED dispVars
       \/ StderrScan(p) /\ UNCHANGED botVars /\ UNCHANGED gateVars /\ UNCHANGED dispVars
       \/ StderrEOF(p) /\ UNCHANGED botVars /\ UNCHANGED gateVars /\ UNCHANGED dispVars
       \/ ChildExit(p) /\ UNCHANGED botVars /\ UNCHANGED gateVars /\ UNCHANGED dispVars
  \/ \E t \in Stoppers :
       \/ StopLookup(t, FreshId(1)) /\ UNCHANGED botVars /\ UNCHANGED gateVars /\ UNCHANGED dispVars
       \/ StopCancel(t) /\ UNCHANGED botVars /\ UNCHANGED gateVars /\ UNCHANGED dispVars
       \/ StopCloseChannels(t) /\ UNCHANGED botVars /\ UNCHANGED gateVars /\ UNCHANGED dispVars
       \/ StopClosePipes(t) /\ UNCHANGED botVars /\ UNCHANGED gateVars /\ UNCHANGED dispVars
       \/ StopWait(t) /\ UNCHANGED botVars /\ UNCHANGED gateVars /\ UNCHANGED dispVars

SpecStopRace == InitStderr /\ [][NextStopRace]_vars

\* C38: StopSession never makes another task panic: neither a concurrent
\* SendMessage nor the stderr monitor sends on a channel StopSession closed.
C38_NoSendOnClosedChannel ==
  panics \cap {"send on closed inputChan", "send on closed errorChan"} = {}

\* The notes of a kind posted in thread ts.
NotesIn(ts, kind) == {n \in chat.notes : n.ThreadTS = ts /\ n.kind = kind}

\* C39: a binding is in the index only once its process was created: every
\* binding has a process handle, no reply in the thread of a workflow that
\* bound it is answered with "session expired", and a workflow whose
\* CreateSession failed leaves no binding.
C39_BoundOnlyWithProcess ==
  /\ \A ts \in DOMAIN botSessions : botSessions[ts].Process # NoProc
  /\ \A p \in Procs :
       /\ flows[p] \in {"bound", "attached"} => NotesIn(ThreadOf(p), "expired") = {}
       /\ flows[p] = "failed" => ThreadOf(p) \notin DOMAIN botSessions

\* C40: a Put for a thread that is already a key (it adds no key) replaces
\* that binding only: it evicts no other binding, whatever the size of the
\* index, so the index keeps its keys.
C40_PutOfKeyEvictsNothing ==
  [][ (lastOp'.kind = "Put" /\ DOMAIN botSessions' \subseteq DOMAIN botSessions)
        => DOMAIN botSessions' = DOMAIN botSessions ]_vars

====
